---------------------------- MODULE Spec2Model ----------------------------
(***************************************************************************)
(* Model of the contact normaliser (src/normalize_contacts.py).            *)
(*                                                                         *)
(* Strings are sequences of one-character strings, so that the character   *)
(* level algorithms (regular expressions, strip, lower, int, strftime) are *)
(* computed as the code computes them; a character that no string literal  *)
(* of the module can hold is the string of its code point, "U+0253".       *)
(* Python's None is the one-element sequence <<"None">>, which no string   *)
(* equals.  An exception that leaves a function is the value               *)
(* <<type>> \o message in the place of its result.                         *)
(*                                                                         *)
(* The sources are the files of a table, Files, and a run names its own;   *)
(* normalize_row and worker_pack are computed once for every row of every  *)
(* source (Normalized, Results), and a run reads what it needs there.  The *)
(* normalized dict of a row travels through the pipeline with its values   *)
(* as texts, and a list of outcomes on its way to the loop is written as   *)
(* the range of the rows it belongs to.                                    *)
(***************************************************************************)
EXTENDS Integers, Sequences, FiniteSets, TLC

VARIABLES
    now,            \* datetime.now(): the date of the run
    input_file,     \* self.input_file: the name of the source
    max_workers,    \* self.max_workers: None (as -1), 0 = auto, N > 0
    cpu_count,      \* os.cpu_count() / len(os.sched_getaffinity(0))
    pc,             \* position of process()
    ret,            \* return value of process()
    stats,          \* self.stats: NormalizationStats
    outfile,        \* the output sink: header flag and written rows
    idx,            \* _process_single: number of data rows consumed
    pool,           \* mp.Pool and its imap iterator
    cur,            \* the chunk the generator expression is iterating
    next_to_write,  \* _process_multiprocess: next_to_write
    buffer,         \* _process_multiprocess: buffer
    popped,         \* history: sequence numbers popped from buffer, in order
    counted,        \* history: sequence numbers folded into stats, in order
    fn_arg,         \* argument of the pure function under check
    fn_ret,         \* its result
    fn_pc           \* "idle", "ready" or "done"

vars == <<now, input_file, max_workers, cpu_count, pc, ret, stats, outfile, idx,
          pool, cur, next_to_write, buffer, popped, counted, fn_arg, fn_ret, fn_pc>>

-----------------------------------------------------------------------------
(* Strings *)

None == <<"None">>

EmptyStr == << >>

DigitChars == <<"0", "1", "2", "3", "4", "5", "6", "7", "8", "9">>

\* the characters str.lower() changes, among those a string literal can hold,
\* and what it makes of each, place by place; a lower case that no string
\* literal can hold is written by its code point, "U+0253" for the lower case
\* of "Ɓ"
UpperChars ==
    <<
    "A", "B", "C", "D", "E", "F", "G", "H", "I", "J", "K", "L", "M", "N", "O", "P", "Q", "R",
    "S", "T", "U", "V", "W", "X", "Y", "Z", "À", "Á", "Â", "Ã", "Ä", "Å", "Æ", "Ç", "È", "É",
    "Ê", "Ë", "Ì", "Í", "Î", "Ï", "Ð", "Ñ", "Ò", "Ó", "Ô", "Õ", "Ö", "Ø", "Ù", "Ú", "Û", "Ü",
    "Ý", "Þ", "Ɓ", "Ƃ", "Ƅ", "Ɔ", "Ƈ", "Ɖ", "Ɗ", "Ƌ", "Ǝ", "Ə", "Ɛ", "Ƒ", "Ɠ", "Ɣ", "Ɩ", "Ɨ",
    "Ƙ", "Ɯ", "Ɲ", "Ɵ", "Ơ", "Ƣ", "Ƥ", "Ʀ", "Ƨ", "Ʃ", "Ƭ", "Ʈ", "Ư", "Ʊ", "Ʋ", "Ƴ", "Ƶ", "Ʒ",
    "Ƹ", "Ƽ", "Ǆ", "ǅ", "Ǉ", "ǈ", "Ǌ", "ǋ", "Ǎ", "Ǐ", "Ǒ", "Ǔ", "Ǖ", "Ǘ", "Ǚ", "Ǜ", "Ǟ", "Ǡ",
    "Ǣ", "Ǥ", "Ǧ", "Ǩ", "Ǫ", "Ǭ", "Ǯ", "Ǳ", "ǲ", "Ǵ", "Ƕ", "Ƿ", "Ǹ", "Ǻ", "Ǽ", "Ǿ", "Ά", "Έ",
    "Ή", "Ί", "Ό", "Ύ", "Ώ", "Α", "Β", "Γ", "Δ", "Ε", "Ζ", "Η", "Θ", "Ι", "Κ", "Λ", "Μ", "Ν",
    "Ξ", "Ο", "Π", "Ρ", "Σ", "Τ", "Υ", "Φ", "Χ", "Ψ", "Ω", "Ϊ", "Ϋ", "Ϗ", "Ϙ", "Ϛ", "Ϝ", "Ϟ",
    "Ϡ", "Ϣ", "Ϥ", "Ϧ", "Ϩ", "Ϫ", "Ϭ", "Ϯ", "ϴ", "Ϸ", "Ϲ", "Ϻ", "Ͻ", "Ͼ", "Ͽ", "Ҁ", "Ҋ", "Ҍ",
    "Ҏ", "Ґ", "Ғ", "Ҕ", "Җ", "Ҙ", "Қ", "Ҝ", "Ҟ", "Ҡ", "Ң", "Ҥ", "Ҧ", "Ҩ", "Ҫ", "Ҭ", "Ү", "Ұ",
    "Ҳ", "Ҵ", "Ҷ", "Ҹ", "Һ", "Ҽ", "Ҿ", "Ӏ", "Ӂ", "Ӄ", "Ӆ", "Ӈ", "Ӊ", "Ӌ", "Ӎ", "Ӑ", "Ӓ", "Ӕ",
    "Ӗ", "Ә", "Ӛ", "Ӝ", "Ӟ", "Ӡ", "Ӣ", "Ӥ", "Ӧ", "Ө", "Ӫ", "Ӭ", "Ӯ", "Ӱ", "Ӳ", "Ӵ", "Ӷ", "Ӹ",
    "Ӻ", "Ӽ", "Ӿ", "Ⴀ", "Ⴁ", "Ⴂ", "Ⴃ", "Ⴄ", "Ⴅ", "Ⴆ", "Ⴇ", "Ⴈ", "Ⴉ", "Ⴊ", "Ⴋ", "Ⴌ", "Ⴍ", "Ⴎ",
    "Ⴏ", "Ⴐ", "Ⴑ", "Ⴒ", "Ⴓ", "Ⴔ", "Ⴕ", "Ⴖ", "Ⴗ", "Ⴘ", "Ⴙ", "Ⴚ", "Ⴛ", "Ⴜ", "Ⴝ", "Ⴞ", "Ⴟ", "Ⴠ",
    "Ⴡ", "Ⴢ", "Ⴣ", "Ⴤ", "Ⴥ", "Ⴧ", "Ⴭ", "Ꭰ", "Ꭱ", "Ꭲ", "Ꭳ", "Ꭴ", "Ꭵ", "Ꭶ", "Ꭷ", "Ꭸ", "Ꭹ", "Ꭺ",
    "Ꭻ", "Ꭼ", "Ꭽ", "Ꭾ", "Ꭿ", "Ꮀ", "Ꮁ", "Ꮂ", "Ꮃ", "Ꮄ", "Ꮅ", "Ꮆ", "Ꮇ", "Ꮈ", "Ꮉ", "Ꮊ", "Ꮋ", "Ꮌ",
    "Ꮍ", "Ꮎ", "Ꮏ", "Ꮐ", "Ꮑ", "Ꮒ", "Ꮓ", "Ꮔ", "Ꮕ", "Ꮖ", "Ꮗ", "Ꮘ", "Ꮙ", "Ꮚ", "Ꮛ", "Ꮜ", "Ꮝ", "Ꮞ",
    "Ꮟ", "Ꮠ", "Ꮡ", "Ꮢ", "Ꮣ", "Ꮤ", "Ꮥ", "Ꮦ", "Ꮧ", "Ꮨ", "Ꮩ", "Ꮪ", "Ꮫ", "Ꮬ", "Ꮭ", "Ꮮ", "Ꮯ", "Ꮰ",
    "Ꮱ", "Ꮲ", "Ꮳ", "Ꮴ", "Ꮵ", "Ꮶ", "Ꮷ", "Ꮸ", "Ꮹ", "Ꮺ", "Ꮻ", "Ꮼ", "Ꮽ", "Ꮾ", "Ꮿ", "Ᏸ", "Ᏹ", "Ᏺ",
    "Ᏻ", "Ᏼ", "Ᏽ", "Ა", "Ბ", "Გ", "Დ", "Ე", "Ვ", "Ზ", "Თ", "Ი", "Კ", "Ლ", "Მ", "Ნ", "Ო", "Პ",
    "Ჟ", "Რ", "Ს", "Ტ", "Უ", "Ფ", "Ქ", "Ღ", "Ყ", "Შ", "Ჩ", "Ც", "Ძ", "Წ", "Ჭ", "Ხ", "Ჯ", "Ჰ",
    "Ჱ", "Ჲ", "Ჳ", "Ჴ", "Ჵ", "Ჶ", "Ჷ", "Ჸ", "Ჹ", "Ჺ", "Ჽ", "Ჾ", "Ჿ", "Ẁ", "Ẃ", "Ẅ", "Ẇ", "Ẉ",
    "Ẋ", "Ẍ", "Ẏ", "Ẑ", "Ẓ", "Ẕ", "ẞ", "Ạ", "Ả", "Ấ", "Ầ", "Ẩ", "Ẫ", "Ậ", "Ắ", "Ằ", "Ẳ", "Ẵ",
    "Ặ", "Ẹ", "Ẻ", "Ẽ", "Ế", "Ề", "Ể", "Ễ", "Ệ", "Ỉ", "Ị", "Ọ", "Ỏ", "Ố", "Ồ", "Ổ", "Ỗ", "Ộ",
    "Ớ", "Ờ", "Ở", "Ỡ", "Ợ", "Ụ", "Ủ", "Ứ", "Ừ", "Ử", "Ữ", "Ự", "Ỳ", "Ỵ", "Ỷ", "Ỹ", "Ỻ", "Ỽ",
    "Ỿ", "ᾈ", "ᾉ", "ᾊ", "ᾋ", "ᾌ", "ᾍ", "ᾎ", "ᾏ", "ᾘ", "ᾙ", "ᾚ", "ᾛ", "ᾜ", "ᾝ", "ᾞ", "ᾟ", "ᾨ",
    "ᾩ", "ᾪ", "ᾫ", "ᾬ", "ᾭ", "ᾮ", "ᾯ", "Ᾰ", "Ᾱ", "Ὰ", "Ά", "ᾼ", "Ὲ", "Έ", "Ὴ", "Ή", "ῌ", "Ῐ",
    "Ῑ", "Ὶ", "Ί", "Ῠ", "Ῡ", "Ὺ", "Ύ", "Ῥ", "Ὸ", "Ό", "Ὼ", "Ώ", "ῼ", "Ↄ", "Ⓐ", "Ⓑ", "Ⓒ", "Ⓓ",
    "Ⓔ", "Ⓕ", "Ⓖ", "Ⓗ", "Ⓘ", "Ⓙ", "Ⓚ", "Ⓛ", "Ⓜ", "Ⓝ", "Ⓞ", "Ⓟ", "Ⓠ", "Ⓡ", "Ⓢ", "Ⓣ", "Ⓤ", "Ⓥ",
    "Ⓦ", "Ⓧ", "Ⓨ", "Ⓩ", "Ⲁ", "Ⲃ", "Ⲅ", "Ⲇ", "Ⲉ", "Ⲋ", "Ⲍ", "Ⲏ", "Ⲑ", "Ⲓ", "Ⲕ", "Ⲗ", "Ⲙ", "Ⲛ",
    "Ⲝ", "Ⲟ", "Ⲡ", "Ⲣ", "Ⲥ", "Ⲧ", "Ⲩ", "Ⲫ", "Ⲭ", "Ⲯ", "Ⲱ", "Ⲳ", "Ⲵ", "Ⲷ", "Ⲹ", "Ⲻ", "Ⲽ", "Ⲿ",
    "Ⳁ", "Ⳃ", "Ⳅ", "Ⳇ", "Ⳉ", "Ⳋ", "Ⳍ", "Ⳏ", "Ⳑ", "Ⳓ", "Ⳕ", "Ⳗ", "Ⳙ", "Ⳛ", "Ⳝ", "Ⳟ", "Ⳡ", "Ⳣ",
    "Ⳬ", "Ⳮ", "Ⳳ", "Ꚁ", "Ꚃ", "Ꚅ", "Ꚇ", "Ꚉ", "Ꚋ", "Ꚍ", "Ꚏ", "Ꚑ", "Ꚓ", "Ꚕ", "Ꚗ", "Ꚙ", "Ꚛ", "Ꞁ",
    "Ꞃ", "Ꞅ", "Ꞇ", "Ꞌ", "Ɥ", "Ꞑ", "Ꞓ", "Ꞗ", "Ꞙ", "Ꞛ", "Ꞝ", "Ꞟ", "Ꞡ", "Ꞣ", "Ꞥ", "Ꞧ", "Ꞩ", "Ɦ",
    "Ɜ", "Ɡ", "Ɬ", "Ɪ", "Ʞ", "Ʇ", "Ʝ", "Ꭓ", "Ꞵ", "Ꞷ", "Ꞹ", "Ꞻ", "Ꞽ", "Ꞿ", "Ꟁ", "Ꟃ", "Ꞔ", "Ʂ",
    "Ᶎ", "Ꟈ", "Ꟊ", "Ꟑ", "Ꟗ", "Ꟙ", "Ꟶ"
    >>

LowerChars ==
    <<
    "a", "b", "c", "d", "e", "f", "g", "h", "i", "j", "k", "l", "m", "n", "o", "p", "q", "r",
    "s", "t", "u", "v", "w", "x", "y", "z", "à", "á", "â", "ã", "ä", "å", "æ", "ç", "è", "é",
    "ê", "ë", "ì", "í", "î", "ï", "ð", "ñ", "ò", "ó", "ô", "õ", "ö", "ø", "ù", "ú", "û", "ü",
    "ý", "þ", "U+0253", "ƃ", "ƅ", "U+0254", "ƈ", "U+0256", "U+0257", "ƌ", "ǝ", "U+0259",
    "U+025B", "ƒ", "U+0260", "U+0263", "U+0269", "U+0268", "ƙ", "U+026F", "U+0272", "U+0275",
    "ơ", "ƣ", "ƥ", "ʀ", "ƨ", "ʃ", "ƭ", "ʈ", "ư", "ʊ", "ʋ", "ƴ", "ƶ", "ʒ", "ƹ", "ƽ", "ǆ", "ǆ",
    "ǉ", "ǉ", "ǌ", "ǌ", "ǎ", "ǐ", "ǒ", "ǔ", "ǖ", "ǘ", "ǚ", "ǜ", "ǟ", "ǡ", "ǣ", "ǥ", "ǧ", "ǩ",
    "ǫ", "ǭ", "ǯ", "ǳ", "ǳ", "ǵ", "ƕ", "ƿ", "ǹ", "ǻ", "ǽ", "ǿ", "ά", "έ", "ή", "ί", "ό", "ύ",
    "ώ", "α", "β", "γ", "δ", "ε", "ζ", "η", "θ", "ι", "κ", "λ", "μ", "ν", "ξ", "ο", "π", "ρ",
    "σ", "τ", "υ", "φ", "χ", "ψ", "ω", "ϊ", "ϋ", "ϗ", "ϙ", "ϛ", "ϝ", "ϟ", "ϡ", "ϣ", "ϥ", "ϧ",
    "ϩ", "ϫ", "ϭ", "ϯ", "θ", "ϸ", "ϲ", "ϻ", "U+037B", "U+037C", "U+037D", "ҁ", "ҋ", "ҍ", "ҏ",
    "ґ", "ғ", "ҕ", "җ", "ҙ", "қ", "ҝ", "ҟ", "ҡ", "ң", "ҥ", "ҧ", "ҩ", "ҫ", "ҭ", "ү", "ұ", "ҳ",
    "ҵ", "ҷ", "ҹ", "һ", "ҽ", "ҿ", "ӏ", "ӂ", "ӄ", "ӆ", "ӈ", "ӊ", "ӌ", "ӎ", "ӑ", "ӓ", "ӕ", "ӗ",
    "ә", "ӛ", "ӝ", "ӟ", "ӡ", "ӣ", "ӥ", "ӧ", "ө", "ӫ", "ӭ", "ӯ", "ӱ", "ӳ", "ӵ", "ӷ", "ӹ", "ӻ",
    "ӽ", "ӿ", "U+2D00", "U+2D01", "U+2D02", "U+2D03", "U+2D04", "U+2D05", "U+2D06", "U+2D07",
    "U+2D08", "U+2D09", "U+2D0A", "U+2D0B", "U+2D0C", "U+2D0D", "U+2D0E", "U+2D0F", "U+2D10",
    "U+2D11", "U+2D12", "U+2D13", "U+2D14", "U+2D15", "U+2D16", "U+2D17", "U+2D18", "U+2D19",
    "U+2D1A", "U+2D1B", "U+2D1C", "U+2D1D", "U+2D1E", "U+2D1F", "U+2D20", "U+2D21", "U+2D22",
    "U+2D23", "U+2D24", "U+2D25", "U+2D27", "U+2D2D", "U+AB70", "U+AB71", "U+AB72", "U+AB73",
    "U+AB74", "U+AB75", "U+AB76", "U+AB77", "U+AB78", "U+AB79", "U+AB7A", "U+AB7B", "U+AB7C",
    "U+AB7D", "U+AB7E", "U+AB7F", "ꮀ", "ꮁ", "ꮂ", "ꮃ", "ꮄ", "ꮅ", "ꮆ", "ꮇ", "ꮈ", "ꮉ", "ꮊ", "ꮋ",
    "ꮌ", "ꮍ", "ꮎ", "ꮏ", "ꮐ", "ꮑ", "ꮒ", "ꮓ", "ꮔ", "ꮕ", "ꮖ", "ꮗ", "ꮘ", "ꮙ", "ꮚ", "ꮛ", "ꮜ", "ꮝ",
    "ꮞ", "ꮟ", "ꮠ", "ꮡ", "ꮢ", "ꮣ", "ꮤ", "ꮥ", "ꮦ", "ꮧ", "ꮨ", "ꮩ", "ꮪ", "ꮫ", "ꮬ", "ꮭ", "ꮮ", "ꮯ",
    "ꮰ", "ꮱ", "ꮲ", "ꮳ", "ꮴ", "ꮵ", "ꮶ", "ꮷ", "ꮸ", "ꮹ", "ꮺ", "ꮻ", "ꮼ", "ꮽ", "ꮾ", "ꮿ", "ᏸ", "ᏹ",
    "ᏺ", "ᏻ", "ᏼ", "ᏽ", "ა", "ბ", "გ", "დ", "ე", "ვ", "ზ", "თ", "ი", "კ", "ლ", "მ", "ნ", "ო",
    "პ", "ჟ", "რ", "ს", "ტ", "უ", "ფ", "ქ", "ღ", "ყ", "შ", "ჩ", "ც", "ძ", "წ", "ჭ", "ხ", "ჯ",
    "ჰ", "ჱ", "ჲ", "ჳ", "ჴ", "ჵ", "ჶ", "ჷ", "ჸ", "ჹ", "ჺ", "ჽ", "ჾ", "ჿ", "ẁ", "ẃ", "ẅ", "ẇ",
    "ẉ", "ẋ", "ẍ", "ẏ", "ẑ", "ẓ", "ẕ", "ß", "ạ", "ả", "ấ", "ầ", "ẩ", "ẫ", "ậ", "ắ", "ằ", "ẳ",
    "ẵ", "ặ", "ẹ", "ẻ", "ẽ", "ế", "ề", "ể", "ễ", "ệ", "ỉ", "ị", "ọ", "ỏ", "ố", "ồ", "ổ", "ỗ",
    "ộ", "ớ", "ờ", "ở", "ỡ", "ợ", "ụ", "ủ", "ứ", "ừ", "ử", "ữ", "ự", "ỳ", "ỵ", "ỷ", "ỹ", "ỻ",
    "ỽ", "ỿ", "ᾀ", "ᾁ", "ᾂ", "ᾃ", "ᾄ", "ᾅ", "ᾆ", "ᾇ", "ᾐ", "ᾑ", "ᾒ", "ᾓ", "ᾔ", "ᾕ", "ᾖ", "ᾗ",
    "ᾠ", "ᾡ", "ᾢ", "ᾣ", "ᾤ", "ᾥ", "ᾦ", "ᾧ", "ᾰ", "ᾱ", "U+1F70", "U+1F71", "ᾳ", "U+1F72",
    "U+1F73", "U+1F74", "U+1F75", "ῃ", "ῐ", "ῑ", "U+1F76", "U+1F77", "ῠ", "ῡ", "U+1F7A",
    "U+1F7B", "ῥ", "U+1F78", "U+1F79", "U+1F7C", "U+1F7D", "ῳ", "ↄ", "ⓐ", "ⓑ", "ⓒ", "ⓓ", "ⓔ",
    "ⓕ", "ⓖ", "ⓗ", "ⓘ", "ⓙ", "ⓚ", "ⓛ", "ⓜ", "ⓝ", "ⓞ", "ⓟ", "ⓠ", "ⓡ", "ⓢ", "ⓣ", "ⓤ", "ⓥ", "ⓦ",
    "ⓧ", "ⓨ", "ⓩ", "ⲁ", "ⲃ", "ⲅ", "ⲇ", "ⲉ", "ⲋ", "ⲍ", "ⲏ", "ⲑ", "ⲓ", "ⲕ", "ⲗ", "ⲙ", "ⲛ", "ⲝ",
    "ⲟ", "ⲡ", "ⲣ", "ⲥ", "ⲧ", "ⲩ", "ⲫ", "ⲭ", "ⲯ", "ⲱ", "ⲳ", "ⲵ", "ⲷ", "ⲹ", "ⲻ", "ⲽ", "ⲿ", "ⳁ",
    "ⳃ", "ⳅ", "ⳇ", "ⳉ", "ⳋ", "ⳍ", "ⳏ", "ⳑ", "ⳓ", "ⳕ", "ⳗ", "ⳙ", "ⳛ", "ⳝ", "ⳟ", "ⳡ", "ⳣ", "ⳬ",
    "ⳮ", "ⳳ", "ꚁ", "ꚃ", "ꚅ", "ꚇ", "ꚉ", "ꚋ", "ꚍ", "ꚏ", "ꚑ", "ꚓ", "ꚕ", "ꚗ", "ꚙ", "ꚛ", "ꞁ", "ꞃ",
    "ꞅ", "ꞇ", "ꞌ", "U+0265", "ꞑ", "ꞓ", "ꞗ", "ꞙ", "ꞛ", "ꞝ", "ꞟ", "ꞡ", "ꞣ", "ꞥ", "ꞧ", "ꞩ",
    "U+0266", "U+025C", "U+0261", "U+026C", "U+026A", "ʞ", "ʇ", "ʝ", "U+AB53", "ꞵ", "ꞷ", "ꞹ",
    "ꞻ", "ꞽ", "ꞿ", "ꟁ", "ꟃ", "ꞔ", "ʂ", "ᶎ", "ꟈ", "ꟊ", "ꟑ", "ꟗ", "ꟙ", "ꟶ"
    >>


\* the characters str.strip() removes and the regex \s matches, among those a
\* string of the model can hold: tab, newline, vertical tab, form feed, carriage
\* return, the separators 1C..1F, space, NEL 85, no-break space A0, ogham 1680
Whitespace == {"\t", "\n", "", "\f", "\r", "", "", "", "", " ", "", " ", " "}

\* the decimal digits of the regex \d and of int(), among the characters a string
\* of the model can hold, by their value: those of value 0, of value 1, ...
DecimalDigits ==
    <<
    {
    "0", "۰", "߀", "০", "૦", "௦", "೦", "෦", "໐", "႐", "០", "᧐", "᪀", "᪐", "᮰", "꣐", "꧐", "꧰",
    "꯰"
    },
    {
    "1", "۱", "߁", "১", "૧", "௧", "೧", "෧", "໑", "႑", "១", "᧑", "᪁", "᪑", "᮱", "꣑", "꧑", "꧱",
    "꯱"
    },
    {
    "2", "۲", "߂", "২", "૨", "௨", "೨", "෨", "໒", "႒", "២", "᧒", "᪂", "᪒", "᮲", "꣒", "꧒", "꧲",
    "꯲"
    },
    {
    "3", "۳", "߃", "৩", "૩", "௩", "೩", "෩", "໓", "႓", "៣", "᧓", "᪃", "᪓", "᮳", "꣓", "꧓", "꧳",
    "꯳"
    },
    {
    "4", "۴", "߄", "৪", "૪", "௪", "೪", "෪", "໔", "႔", "៤", "᧔", "᪄", "᪔", "᮴", "꣔", "꧔", "꧴",
    "꯴"
    },
    {
    "5", "۵", "߅", "৫", "૫", "௫", "೫", "෫", "໕", "႕", "៥", "᧕", "᪅", "᪕", "᮵", "꣕", "꧕", "꧵",
    "꯵"
    },
    {
    "6", "۶", "߆", "৬", "૬", "௬", "೬", "෬", "໖", "႖", "៦", "᧖", "᪆", "᪖", "᮶", "꣖", "꧖", "꧶",
    "꯶"
    },
    {
    "7", "۷", "߇", "৭", "૭", "௭", "೭", "෭", "໗", "႗", "៧", "᧗", "᪇", "᪗", "᮷", "꣗", "꧗", "꧷",
    "꯷"
    },
    {
    "8", "۸", "߈", "৮", "૮", "௮", "೮", "෮", "໘", "႘", "៨", "᧘", "᪈", "᪘", "᮸", "꣘", "꧘", "꧸",
    "꯸"
    },
    {
    "9", "۹", "߉", "৯", "૯", "௯", "೯", "෯", "໙", "႙", "៩", "᧙", "᪉", "᪙", "᮹", "꣙", "꧙", "꧹",
    "꯹"
    }
    >>

\* the characters str.lower() skips when it looks for the letters around a
\* capital sigma (case-ignorable), and the other characters that are cased,
\* the lower cases written by their code points among them
CaseIgnorable ==
    {
    "'", ".", ":", "^", "¨", "­", "¯", "´", "·", "¸", "ʰ", "ʱ", "ʲ", "ʳ", "ʴ", "ʵ", "ʶ", "ʷ",
    "ʸ", "ʹ", "ʺ", "ʻ", "ʼ", "ʽ", "ʾ", "ʿ", "ˀ", "ˁ", "˂", "˃", "˄", "˅", "ˆ", "ˇ", "ˈ", "ˉ",
    "ˊ", "ˋ", "ˌ", "ˍ", "ˎ", "ˏ", "ː", "ˑ", "˒", "˓", "˔", "˕", "˖", "˗", "˘", "˙", "˚", "˛",
    "˜", "˝", "˞", "˟", "ˠ", "ˡ", "ˢ", "ˣ", "ˤ", "˥", "˦", "˧", "˨", "˩", "˪", "˫", "ˬ", "˭",
    "ˮ", "˯", "˰", "˱", "˲", "˳", "˴", "˵", "˶", "˷", "˸", "˹", "˺", "˻", "˼", "˽", "˾", "˿",
    "΄", "΅", "·", "҃", "҄", "҅", "҆", "҇", "҈", "҉", "֑", "֒", "֓", "֔", "֕", "֖", "֗", "֘",
    "֙", "֚", "֛", "֜", "֝", "֞", "֟", "֠", "֡", "֢", "֣", "֤", "֥", "֦", "֧", "֨", "֩", "֪",
    "֫", "֬", "֭", "֮", "֯", "ְ", "ֱ", "ֲ", "ֳ", "ִ", "ֵ", "ֶ", "ַ", "ָ", "ֹ", "ֺ", "ֻ", "ּ",
    "ֽ", "ֿ", "ׁ", "ׂ", "ׄ", "ׅ", "ׇ", "״", "ۖ", "ۗ", "ۘ", "ۙ", "ۚ", "ۛ", "ۜ", "۝", "۟", "۠",
    "ۡ", "ۢ", "ۣ", "ۤ", "ۥ", "ۦ", "ۧ", "ۨ", "۪", "۫", "۬", "ۭ", "ަ", "ާ", "ި", "ީ", "ު", "ޫ",
    "ެ", "ޭ", "ޮ", "ޯ", "ް", "߫", "߬", "߭", "߮", "߯", "߰", "߱", "߲", "߳", "ߴ", "ߵ", "ߺ", "߽",
    "࢈", "࢐", "࢑", "࢘", "࢙", "࢚", "࢛", "࢜", "࢝", "࢞", "࢟", "ࣉ", "࣊", "࣋", "࣌", "࣍", "࣎", "࣏",
    "࣐", "࣑", "࣒", "࣓", "ࣔ", "ࣕ", "ࣖ", "ࣗ", "ࣘ", "ࣙ", "ࣚ", "ࣛ", "ࣜ", "ࣝ", "ࣞ", "ࣟ", "࣠", "࣡",
    "࣢", "ࣣ", "ࣤ", "ࣥ", "ࣦ", "ࣧ", "ࣨ", "ࣩ", "࣪", "࣫", "࣬", "࣭", "࣮", "࣯", "ࣰ", "ࣱ", "ࣲ", "ࣳ",
    "ࣴ", "ࣵ", "ࣶ", "ࣷ", "ࣸ", "ࣹ", "ࣺ", "ࣻ", "ࣼ", "ࣽ", "ࣾ", "ࣿ", "ঁ", "়", "ু", "ূ", "ৃ", "ৄ",
    "্", "ৢ", "ৣ", "৾", "ઁ", "ં", "઼", "ુ", "ૂ", "ૃ", "ૄ", "ૅ", "ે", "ૈ", "્", "ૢ", "ૣ", "ૺ",
    "ૻ", "ૼ", "૽", "૾", "૿", "ஂ", "ீ", "்", "ಁ", "಼", "ಿ", "ೆ", "ೌ", "್", "ೢ", "ೣ", "ඁ", "්",
    "ි", "ී", "ු", "ූ", "ັ", "ິ", "ີ", "ຶ", "ື", "ຸ", "ູ", "຺", "ົ", "ຼ", "ໆ", "່", "້", "໊",
    "໋", "໌", "ໍ", "ྀ", "ཱྀ", "ྂ", "ྃ", "྄", "྆", "྇", "ྍ", "ྎ", "ྏ", "ྐ", "ྑ", "ྒ", "ྒྷ", "ྔ",
    "ྕ", "ྖ", "ྗ", "ྙ", "ྚ", "ྛ", "ྜ", "ྜྷ", "ྞ", "ྟ", "ྠ", "ྡ", "ྡྷ", "ྣ", "ྤ", "ྥ", "ྦ", "ྦྷ",
    "ྨ", "ྩ", "ྪ", "ྫ", "ྫྷ", "ྭ", "ྮ", "ྯ", "ྰ", "ྱ", "ྲ", "ླ", "ྴ", "ྵ", "ྶ", "ྷ", "ྸ", "ྐྵ",
    "ྺ", "ྻ", "ྼ", "࿆", "ႂ", "ႅ", "ႆ", "ႍ", "ႝ", "ჼ", "឴", "឵", "ិ", "ី", "ឹ", "ឺ", "ុ", "ូ",
    "ួ", "ំ", "៉", "៊", "់", "៌", "៍", "៎", "៏", "័", "៑", "្", "៓", "ៗ", "៝", "ᢅ", "ᢆ", "ᢩ",
    "ᪧ", "᪰", "᪱", "᪲", "᪳", "᪴", "᪵", "᪶", "᪷", "᪸", "᪹", "᪺", "᪻", "᪼", "᪽", "᪾", "ᪿ", "ᫀ",
    "᫁", "᫂", "᫃", "᫄", "᫅", "᫆", "᫇", "᫈", "᫉", "᫊", "᫋", "ᫌ", "ᫍ", "ᫎ", "ᮀ", "ᮁ", "ᮢ", "ᮣ",
    "ᮤ", "ᮥ", "ᮨ", "ᮩ", "᮫", "ᮬ", "ᮭ", "᯦", "ᯨ", "ᯩ", "ᯭ", "ᯯ", "ᯰ", "ᯱ", "᳐", "᳑", "᳒", "᳔",
    "᳕", "᳖", "᳗", "᳘", "᳙", "᳚", "᳛", "᳜", "᳝", "᳞", "᳟", "᳠", "᳢", "᳣", "᳤", "᳥", "᳦", "᳧",
    "᳨", "᳭", "᳴", "᳸", "᳹", "ᶛ", "ᶜ", "ᶝ", "ᶞ", "ᶟ", "ᶠ", "ᶡ", "ᶢ", "ᶣ", "ᶤ", "ᶥ", "ᶦ", "ᶧ",
    "ᶨ", "ᶩ", "ᶪ", "ᶫ", "ᶬ", "ᶭ", "ᶮ", "ᶯ", "ᶰ", "ᶱ", "ᶲ", "ᶳ", "ᶴ", "ᶵ", "ᶶ", "ᶷ", "ᶸ", "ᶹ",
    "ᶺ", "ᶻ", "ᶼ", "ᶽ", "ᶾ", "ᶿ", "᷀", "᷁", "᷂", "᷃", "᷄", "᷅", "᷆", "᷇", "᷈", "᷉", "᷊", "᷋",
    "᷌", "᷍", "᷎", "᷏", "᷐", "᷑", "᷒", "ᷓ", "ᷔ", "ᷕ", "ᷖ", "ᷗ", "ᷘ", "ᷙ", "ᷚ", "ᷛ", "ᷜ", "ᷝ",
    "ᷞ", "ᷟ", "ᷠ", "ᷡ", "ᷢ", "ᷣ", "ᷤ", "ᷥ", "ᷦ", "ᷧ", "ᷨ", "ᷩ", "ᷪ", "ᷫ", "ᷬ", "ᷭ", "ᷮ", "ᷯ",
    "ᷰ", "ᷱ", "ᷲ", "ᷳ", "ᷴ", "᷵", "᷶", "᷷", "᷸", "᷹", "᷺", "᷻", "᷼", "᷽", "᷾", "᷿", "᾽", "᾿",
    "῀", "῁", "῍", "῎", "῏", "῝", "῞", "῟", "῭", "΅", "`", "´", "῾", "ₐ", "ₑ", "ₒ", "ₓ", "ₔ",
    "ₕ", "ₖ", "ₗ", "ₘ", "ₙ", "ₚ", "ₛ", "ₜ", "⃐", "⃑", "⃒", "⃓", "⃔", "⃕", "⃖", "⃗", "⃘", "⃙",
    "⃚", "⃛", "⃜", "⃝", "⃞", "⃟", "⃠", "⃡", "⃢", "⃣", "⃤", "⃥", "⃦", "⃧", "⃨", "⃩", "⃪", "⃫",
    "⃬", "⃭", "⃮", "⃯", "⃰", "⳯", "⳰", "⳱", "ⷠ", "ⷡ", "ⷢ", "ⷣ", "ⷤ", "ⷥ", "ⷦ", "ⷧ", "ⷨ", "ⷩ",
    "ⷪ", "ⷫ", "ⷬ", "ⷭ", "ⷮ", "ⷯ", "ⷰ", "ⷱ", "ⷲ", "ⷳ", "ⷴ", "ⷵ", "ⷶ", "ⷷ", "ⷸ", "ⷹ", "ⷺ", "ⷻ",
    "ⷼ", "ⷽ", "ⷾ", "ⷿ", "゙", "゚", "゛", "゜", "ゝ", "ゞ", "ー", "ヽ", "ヾ", "ꓸ", "ꓹ", "ꓺ", "ꓻ", "ꓼ",
    "ꓽ", "ꚜ", "ꚝ", "ꚞ", "ꚟ", "꛰", "꛱", "ꞈ", "꞉", "꞊", "ꟲ", "ꟳ", "ꟴ", "ꟸ", "ꟹ", "꣄", "ꣅ", "꣠",
    "꣡", "꣢", "꣣", "꣤", "꣥", "꣦", "꣧", "꣨", "꣩", "꣪", "꣫", "꣬", "꣭", "꣮", "꣯", "꣰", "꣱", "ꣿ",
    "ꦀ", "ꦁ", "ꦂ", "꦳", "ꦶ", "ꦷ", "ꦸ", "ꦹ", "ꦼ", "ꦽ", "ꧏ", "ꧥ", "ꧦ", "ꪰ", "ꪲ", "ꪳ", "ꪴ", "ꪷ",
    "ꪸ", "ꪾ", "꪿", "꫁", "ꫝ", "ꫬ", "ꫭ", "ꫳ", "ꫴ", "꫶", "ꯥ", "ꯨ", "꯭", "﮲", "﮳", "﮴", "﮵", "﮶",
    "﮷", "﮸", "﮹", "﮺", "﮻", "﮼", "﮽", "﮾", "﮿", "﯀", "﯁", "﯂", "﻿", "ﾞ", "ﾟ", "￣", "￹", "￺",
    "￻"
    }

Cased ==
    {
    "A", "B", "C", "D", "E", "F", "G", "H", "I", "J", "K", "L", "M", "N", "O", "P", "Q", "R",
    "S", "T", "U", "V", "W", "X", "Y", "Z", "a", "b", "c", "d", "e", "f", "g", "h", "i", "j",
    "k", "l", "m", "n", "o", "p", "q", "r", "s", "t", "u", "v", "w", "x", "y", "z", "ª", "µ",
    "º", "À", "Á", "Â", "Ã", "Ä", "Å", "Æ", "Ç", "È", "É", "Ê", "Ë", "Ì", "Í", "Î", "Ï", "Ð",
    "Ñ", "Ò", "Ó", "Ô", "Õ", "Ö", "Ø", "Ù", "Ú", "Û", "Ü", "Ý", "Þ", "ß", "à", "á", "â", "ã",
    "ä", "å", "æ", "ç", "è", "é", "ê", "ë", "ì", "í", "î", "ï", "ð", "ñ", "ò", "ó", "ô", "õ",
    "ö", "ø", "ù", "ú", "û", "ü", "ý", "þ", "ÿ", "ƀ", "Ɓ", "Ƃ", "ƃ", "Ƅ", "ƅ", "Ɔ", "Ƈ", "ƈ",
    "Ɖ", "Ɗ", "Ƌ", "ƌ", "ƍ", "Ǝ", "Ə", "Ɛ", "Ƒ", "ƒ", "Ɠ", "Ɣ", "ƕ", "Ɩ", "Ɨ", "Ƙ", "ƙ", "ƚ",
    "ƛ", "Ɯ", "Ɲ", "ƞ", "Ɵ", "Ơ", "ơ", "Ƣ", "ƣ", "Ƥ", "ƥ", "Ʀ", "Ƨ", "ƨ", "Ʃ", "ƪ", "ƫ", "Ƭ",
    "ƭ", "Ʈ", "Ư", "ư", "Ʊ", "Ʋ", "Ƴ", "ƴ", "Ƶ", "ƶ", "Ʒ", "Ƹ", "ƹ", "ƺ", "Ƽ", "ƽ", "ƾ", "ƿ",
    "Ǆ", "ǅ", "ǆ", "Ǉ", "ǈ", "ǉ", "Ǌ", "ǋ", "ǌ", "Ǎ", "ǎ", "Ǐ", "ǐ", "Ǒ", "ǒ", "Ǔ", "ǔ", "Ǖ",
    "ǖ", "Ǘ", "ǘ", "Ǚ", "ǚ", "Ǜ", "ǜ", "ǝ", "Ǟ", "ǟ", "Ǡ", "ǡ", "Ǣ", "ǣ", "Ǥ", "ǥ", "Ǧ", "ǧ",
    "Ǩ", "ǩ", "Ǫ", "ǫ", "Ǭ", "ǭ", "Ǯ", "ǯ", "ǰ", "Ǳ", "ǲ", "ǳ", "Ǵ", "ǵ", "Ƕ", "Ƿ", "Ǹ", "ǹ",
    "Ǻ", "ǻ", "Ǽ", "ǽ", "Ǿ", "ǿ", "ʀ", "ʁ", "ʂ", "ʃ", "ʄ", "ʅ", "ʆ", "ʇ", "ʈ", "ʉ", "ʊ", "ʋ",
    "ʌ", "ʍ", "ʎ", "ʏ", "ʐ", "ʑ", "ʒ", "ʓ", "ʕ", "ʖ", "ʗ", "ʘ", "ʙ", "ʚ", "ʛ", "ʜ", "ʝ", "ʞ",
    "ʟ", "ʠ", "ʡ", "ʢ", "ʣ", "ʤ", "ʥ", "ʦ", "ʧ", "ʨ", "ʩ", "ʪ", "ʫ", "ʬ", "ʭ", "ʮ", "ʯ", "Ά",
    "Έ", "Ή", "Ί", "Ό", "Ύ", "Ώ", "ΐ", "Α", "Β", "Γ", "Δ", "Ε", "Ζ", "Η", "Θ", "Ι", "Κ", "Λ",
    "Μ", "Ν", "Ξ", "Ο", "Π", "Ρ", "Σ", "Τ", "Υ", "Φ", "Χ", "Ψ", "Ω", "Ϊ", "Ϋ", "ά", "έ", "ή",
    "ί", "ΰ", "α", "β", "γ", "δ", "ε", "ζ", "η", "θ", "ι", "κ", "λ", "μ", "ν", "ξ", "ο", "π",
    "ρ", "ς", "σ", "τ", "υ", "φ", "χ", "ψ", "ω", "ϊ", "ϋ", "ό", "ύ", "ώ", "Ϗ", "ϐ", "ϑ", "ϒ",
    "ϓ", "ϔ", "ϕ", "ϖ", "ϗ", "Ϙ", "ϙ", "Ϛ", "ϛ", "Ϝ", "ϝ", "Ϟ", "ϟ", "Ϡ", "ϡ", "Ϣ", "ϣ", "Ϥ",
    "ϥ", "Ϧ", "ϧ", "Ϩ", "ϩ", "Ϫ", "ϫ", "Ϭ", "ϭ", "Ϯ", "ϯ", "ϰ", "ϱ", "ϲ", "ϳ", "ϴ", "ϵ", "Ϸ",
    "ϸ", "Ϲ", "Ϻ", "ϻ", "ϼ", "Ͻ", "Ͼ", "Ͽ", "Ҁ", "ҁ", "Ҋ", "ҋ", "Ҍ", "ҍ", "Ҏ", "ҏ", "Ґ", "ґ",
    "Ғ", "ғ", "Ҕ", "ҕ", "Җ", "җ", "Ҙ", "ҙ", "Қ", "қ", "Ҝ", "ҝ", "Ҟ", "ҟ", "Ҡ", "ҡ", "Ң", "ң",
    "Ҥ", "ҥ", "Ҧ", "ҧ", "Ҩ", "ҩ", "Ҫ", "ҫ", "Ҭ", "ҭ", "Ү", "ү", "Ұ", "ұ", "Ҳ", "ҳ", "Ҵ", "ҵ",
    "Ҷ", "ҷ", "Ҹ", "ҹ", "Һ", "һ", "Ҽ", "ҽ", "Ҿ", "ҿ", "Ӏ", "Ӂ", "ӂ", "Ӄ", "ӄ", "Ӆ", "ӆ", "Ӈ",
    "ӈ", "Ӊ", "ӊ", "Ӌ", "ӌ", "Ӎ", "ӎ", "ӏ", "Ӑ", "ӑ", "Ӓ", "ӓ", "Ӕ", "ӕ", "Ӗ", "ӗ", "Ә", "ә",
    "Ӛ", "ӛ", "Ӝ", "ӝ", "Ӟ", "ӟ", "Ӡ", "ӡ", "Ӣ", "ӣ", "Ӥ", "ӥ", "Ӧ", "ӧ", "Ө", "ө", "Ӫ", "ӫ",
    "Ӭ", "ӭ", "Ӯ", "ӯ", "Ӱ", "ӱ", "Ӳ", "ӳ", "Ӵ", "ӵ", "Ӷ", "ӷ", "Ӹ", "ӹ", "Ӻ", "ӻ", "Ӽ", "ӽ",
    "Ӿ", "ӿ", "ր", "ց", "ւ", "փ", "ք", "օ", "ֆ", "և", "ֈ", "Ⴀ", "Ⴁ", "Ⴂ", "Ⴃ", "Ⴄ", "Ⴅ", "Ⴆ",
    "Ⴇ", "Ⴈ", "Ⴉ", "Ⴊ", "Ⴋ", "Ⴌ", "Ⴍ", "Ⴎ", "Ⴏ", "Ⴐ", "Ⴑ", "Ⴒ", "Ⴓ", "Ⴔ", "Ⴕ", "Ⴖ", "Ⴗ", "Ⴘ",
    "Ⴙ", "Ⴚ", "Ⴛ", "Ⴜ", "Ⴝ", "Ⴞ", "Ⴟ", "Ⴠ", "Ⴡ", "Ⴢ", "Ⴣ", "Ⴤ", "Ⴥ", "Ⴧ", "Ⴭ", "ა", "ბ", "გ",
    "დ", "ე", "ვ", "ზ", "თ", "ი", "კ", "ლ", "მ", "ნ", "ო", "პ", "ჟ", "რ", "ს", "ტ", "უ", "ფ",
    "ქ", "ღ", "ყ", "შ", "ჩ", "ც", "ძ", "წ", "ჭ", "ხ", "ჯ", "ჰ", "ჱ", "ჲ", "ჳ", "ჴ", "ჵ", "ჶ",
    "ჷ", "ჸ", "ჹ", "ჺ", "ჽ", "ჾ", "ჿ", "Ꭰ", "Ꭱ", "Ꭲ", "Ꭳ", "Ꭴ", "Ꭵ", "Ꭶ", "Ꭷ", "Ꭸ", "Ꭹ", "Ꭺ",
    "Ꭻ", "Ꭼ", "Ꭽ", "Ꭾ", "Ꭿ", "Ꮀ", "Ꮁ", "Ꮂ", "Ꮃ", "Ꮄ", "Ꮅ", "Ꮆ", "Ꮇ", "Ꮈ", "Ꮉ", "Ꮊ", "Ꮋ", "Ꮌ",
    "Ꮍ", "Ꮎ", "Ꮏ", "Ꮐ", "Ꮑ", "Ꮒ", "Ꮓ", "Ꮔ", "Ꮕ", "Ꮖ", "Ꮗ", "Ꮘ", "Ꮙ", "Ꮚ", "Ꮛ", "Ꮜ", "Ꮝ", "Ꮞ",
    "Ꮟ", "Ꮠ", "Ꮡ", "Ꮢ", "Ꮣ", "Ꮤ", "Ꮥ", "Ꮦ", "Ꮧ", "Ꮨ", "Ꮩ", "Ꮪ", "Ꮫ", "Ꮬ", "Ꮭ", "Ꮮ", "Ꮯ", "Ꮰ",
    "Ꮱ", "Ꮲ", "Ꮳ", "Ꮴ", "Ꮵ", "Ꮶ", "Ꮷ", "Ꮸ", "Ꮹ", "Ꮺ", "Ꮻ", "Ꮼ", "Ꮽ", "Ꮾ", "Ꮿ", "Ᏸ", "Ᏹ", "Ᏺ",
    "Ᏻ", "Ᏼ", "Ᏽ", "ᏸ", "ᏹ", "ᏺ", "ᏻ", "ᏼ", "ᏽ", "ᲀ", "ᲁ", "ᲂ", "ᲃ", "ᲄ", "ᲅ", "ᲆ", "ᲇ", "ᲈ",
    "Ა", "Ბ", "Გ", "Დ", "Ე", "Ვ", "Ზ", "Თ", "Ი", "Კ", "Ლ", "Მ", "Ნ", "Ო", "Პ", "Ჟ", "Რ", "Ს",
    "Ტ", "Უ", "Ფ", "Ქ", "Ღ", "Ყ", "Შ", "Ჩ", "Ც", "Ძ", "Წ", "Ჭ", "Ხ", "Ჯ", "Ჰ", "Ჱ", "Ჲ", "Ჳ",
    "Ჴ", "Ჵ", "Ჶ", "Ჷ", "Ჸ", "Ჹ", "Ჺ", "Ჽ", "Ჾ", "Ჿ", "ᶀ", "ᶁ", "ᶂ", "ᶃ", "ᶄ", "ᶅ", "ᶆ", "ᶇ",
    "ᶈ", "ᶉ", "ᶊ", "ᶋ", "ᶌ", "ᶍ", "ᶎ", "ᶏ", "ᶐ", "ᶑ", "ᶒ", "ᶓ", "ᶔ", "ᶕ", "ᶖ", "ᶗ", "ᶘ", "ᶙ",
    "ᶚ", "Ẁ", "ẁ", "Ẃ", "ẃ", "Ẅ", "ẅ", "Ẇ", "ẇ", "Ẉ", "ẉ", "Ẋ", "ẋ", "Ẍ", "ẍ", "Ẏ", "ẏ", "Ẑ",
    "ẑ", "Ẓ", "ẓ", "Ẕ", "ẕ", "ẖ", "ẗ", "ẘ", "ẙ", "ẚ", "ẛ", "ẜ", "ẝ", "ẞ", "ẟ", "Ạ", "ạ", "Ả",
    "ả", "Ấ", "ấ", "Ầ", "ầ", "Ẩ", "ẩ", "Ẫ", "ẫ", "Ậ", "ậ", "Ắ", "ắ", "Ằ", "ằ", "Ẳ", "ẳ", "Ẵ",
    "ẵ", "Ặ", "ặ", "Ẹ", "ẹ", "Ẻ", "ẻ", "Ẽ", "ẽ", "Ế", "ế", "Ề", "ề", "Ể", "ể", "Ễ", "ễ", "Ệ",
    "ệ", "Ỉ", "ỉ", "Ị", "ị", "Ọ", "ọ", "Ỏ", "ỏ", "Ố", "ố", "Ồ", "ồ", "Ổ", "ổ", "Ỗ", "ỗ", "Ộ",
    "ộ", "Ớ", "ớ", "Ờ", "ờ", "Ở", "ở", "Ỡ", "ỡ", "Ợ", "ợ", "Ụ", "ụ", "Ủ", "ủ", "Ứ", "ứ", "Ừ",
    "ừ", "Ử", "ử", "Ữ", "ữ", "Ự", "ự", "Ỳ", "ỳ", "Ỵ", "ỵ", "Ỷ", "ỷ", "Ỹ", "ỹ", "Ỻ", "ỻ", "Ỽ",
    "ỽ", "Ỿ", "ỿ", "ᾀ", "ᾁ", "ᾂ", "ᾃ", "ᾄ", "ᾅ", "ᾆ", "ᾇ", "ᾈ", "ᾉ", "ᾊ", "ᾋ", "ᾌ", "ᾍ", "ᾎ",
    "ᾏ", "ᾐ", "ᾑ", "ᾒ", "ᾓ", "ᾔ", "ᾕ", "ᾖ", "ᾗ", "ᾘ", "ᾙ", "ᾚ", "ᾛ", "ᾜ", "ᾝ", "ᾞ", "ᾟ", "ᾠ",
    "ᾡ", "ᾢ", "ᾣ", "ᾤ", "ᾥ", "ᾦ", "ᾧ", "ᾨ", "ᾩ", "ᾪ", "ᾫ", "ᾬ", "ᾭ", "ᾮ", "ᾯ", "ᾰ", "ᾱ", "ᾲ",
    "ᾳ", "ᾴ", "ᾶ", "ᾷ", "Ᾰ", "Ᾱ", "Ὰ", "Ά", "ᾼ", "ι", "ῂ", "ῃ", "ῄ", "ῆ", "ῇ", "Ὲ", "Έ", "Ὴ",
    "Ή", "ῌ", "ῐ", "ῑ", "ῒ", "ΐ", "ῖ", "ῗ", "Ῐ", "Ῑ", "Ὶ", "Ί", "ῠ", "ῡ", "ῢ", "ΰ", "ῤ", "ῥ",
    "ῦ", "ῧ", "Ῠ", "Ῡ", "Ὺ", "Ύ", "Ῥ", "ῲ", "ῳ", "ῴ", "ῶ", "ῷ", "Ὸ", "Ό", "Ὼ", "Ώ", "ῼ", "Ↄ",
    "ↄ", "Ⓐ", "Ⓑ", "Ⓒ", "Ⓓ", "Ⓔ", "Ⓕ", "Ⓖ", "Ⓗ", "Ⓘ", "Ⓙ", "Ⓚ", "Ⓛ", "Ⓜ", "Ⓝ", "Ⓞ", "Ⓟ", "Ⓠ",
    "Ⓡ", "Ⓢ", "Ⓣ", "Ⓤ", "Ⓥ", "Ⓦ", "Ⓧ", "Ⓨ", "Ⓩ", "ⓐ", "ⓑ", "ⓒ", "ⓓ", "ⓔ", "ⓕ", "ⓖ", "ⓗ", "ⓘ",
    "ⓙ", "ⓚ", "ⓛ", "ⓜ", "ⓝ", "ⓞ", "ⓟ", "ⓠ", "ⓡ", "ⓢ", "ⓣ", "ⓤ", "ⓥ", "ⓦ", "ⓧ", "ⓨ", "ⓩ", "Ⲁ",
    "ⲁ", "Ⲃ", "ⲃ", "Ⲅ", "ⲅ", "Ⲇ", "ⲇ", "Ⲉ", "ⲉ", "Ⲋ", "ⲋ", "Ⲍ", "ⲍ", "Ⲏ", "ⲏ", "Ⲑ", "ⲑ", "Ⲓ",
    "ⲓ", "Ⲕ", "ⲕ", "Ⲗ", "ⲗ", "Ⲙ", "ⲙ", "Ⲛ", "ⲛ", "Ⲝ", "ⲝ", "Ⲟ", "ⲟ", "Ⲡ", "ⲡ", "Ⲣ", "ⲣ", "Ⲥ",
    "ⲥ", "Ⲧ", "ⲧ", "Ⲩ", "ⲩ", "Ⲫ", "ⲫ", "Ⲭ", "ⲭ", "Ⲯ", "ⲯ", "Ⲱ", "ⲱ", "Ⲳ", "ⲳ", "Ⲵ", "ⲵ", "Ⲷ",
    "ⲷ", "Ⲹ", "ⲹ", "Ⲻ", "ⲻ", "Ⲽ", "ⲽ", "Ⲿ", "ⲿ", "Ⳁ", "ⳁ", "Ⳃ", "ⳃ", "Ⳅ", "ⳅ", "Ⳇ", "ⳇ", "Ⳉ",
    "ⳉ", "Ⳋ", "ⳋ", "Ⳍ", "ⳍ", "Ⳏ", "ⳏ", "Ⳑ", "ⳑ", "Ⳓ", "ⳓ", "Ⳕ", "ⳕ", "Ⳗ", "ⳗ", "Ⳙ", "ⳙ", "Ⳛ",
    "ⳛ", "Ⳝ", "ⳝ", "Ⳟ", "ⳟ", "Ⳡ", "ⳡ", "Ⳣ", "ⳣ", "ⳤ", "Ⳬ", "ⳬ", "Ⳮ", "ⳮ", "Ⳳ", "ⳳ", "Ꚁ", "ꚁ",
    "Ꚃ", "ꚃ", "Ꚅ", "ꚅ", "Ꚇ", "ꚇ", "Ꚉ", "ꚉ", "Ꚋ", "ꚋ", "Ꚍ", "ꚍ", "Ꚏ", "ꚏ", "Ꚑ", "ꚑ", "Ꚓ", "ꚓ",
    "Ꚕ", "ꚕ", "Ꚗ", "ꚗ", "Ꚙ", "ꚙ", "Ꚛ", "ꚛ", "Ꞁ", "ꞁ", "Ꞃ", "ꞃ", "Ꞅ", "ꞅ", "Ꞇ", "ꞇ", "Ꞌ", "ꞌ",
    "Ɥ", "ꞎ", "Ꞑ", "ꞑ", "Ꞓ", "ꞓ", "ꞔ", "ꞕ", "Ꞗ", "ꞗ", "Ꞙ", "ꞙ", "Ꞛ", "ꞛ", "Ꞝ", "ꞝ", "Ꞟ", "ꞟ",
    "Ꞡ", "ꞡ", "Ꞣ", "ꞣ", "Ꞥ", "ꞥ", "Ꞧ", "ꞧ", "Ꞩ", "ꞩ", "Ɦ", "Ɜ", "Ɡ", "Ɬ", "Ɪ", "ꞯ", "Ʞ", "Ʇ",
    "Ʝ", "Ꭓ", "Ꞵ", "ꞵ", "Ꞷ", "ꞷ", "Ꞹ", "ꞹ", "Ꞻ", "ꞻ", "Ꞽ", "ꞽ", "Ꞿ", "ꞿ", "Ꟁ", "ꟁ", "Ꟃ", "ꟃ",
    "Ꞔ", "Ʂ", "Ᶎ", "Ꟈ", "ꟈ", "Ꟊ", "ꟊ", "Ꟑ", "ꟑ", "ꟓ", "ꟕ", "Ꟗ", "ꟗ", "Ꟙ", "ꟙ", "Ꟶ", "ꟶ", "ꟺ",
    "ꮀ", "ꮁ", "ꮂ", "ꮃ", "ꮄ", "ꮅ", "ꮆ", "ꮇ", "ꮈ", "ꮉ", "ꮊ", "ꮋ", "ꮌ", "ꮍ", "ꮎ", "ꮏ", "ꮐ", "ꮑ",
    "ꮒ", "ꮓ", "ꮔ", "ꮕ", "ꮖ", "ꮗ", "ꮘ", "ꮙ", "ꮚ", "ꮛ", "ꮜ", "ꮝ", "ꮞ", "ꮟ", "ꮠ", "ꮡ", "ꮢ", "ꮣ",
    "ꮤ", "ꮥ", "ꮦ", "ꮧ", "ꮨ", "ꮩ", "ꮪ", "ꮫ", "ꮬ", "ꮭ", "ꮮ", "ꮯ", "ꮰ", "ꮱ", "ꮲ", "ꮳ", "ꮴ", "ꮵ",
    "ꮶ", "ꮷ", "ꮸ", "ꮹ", "ꮺ", "ꮻ", "ꮼ", "ꮽ", "ꮾ", "ꮿ", "U+0253", "U+0254", "U+0256", "U+0257",
    "U+0259", "U+025B", "U+0260", "U+0263", "U+0269", "U+0268", "U+026F", "U+0272", "U+0275",
    "U+037B", "U+037C", "U+037D", "U+2D00", "U+2D01", "U+2D02", "U+2D03", "U+2D04", "U+2D05",
    "U+2D06", "U+2D07", "U+2D08", "U+2D09", "U+2D0A", "U+2D0B", "U+2D0C", "U+2D0D", "U+2D0E",
    "U+2D0F", "U+2D10", "U+2D11", "U+2D12", "U+2D13", "U+2D14", "U+2D15", "U+2D16", "U+2D17",
    "U+2D18", "U+2D19", "U+2D1A", "U+2D1B", "U+2D1C", "U+2D1D", "U+2D1E", "U+2D1F", "U+2D20",
    "U+2D21", "U+2D22", "U+2D23", "U+2D24", "U+2D25", "U+2D27", "U+2D2D", "U+AB70", "U+AB71",
    "U+AB72", "U+AB73", "U+AB74", "U+AB75", "U+AB76", "U+AB77", "U+AB78", "U+AB79", "U+AB7A",
    "U+AB7B", "U+AB7C", "U+AB7D", "U+AB7E", "U+AB7F", "U+1F70", "U+1F71", "U+1F72", "U+1F73",
    "U+1F74", "U+1F75", "U+1F76", "U+1F77", "U+1F7A", "U+1F7B", "U+1F78", "U+1F79", "U+1F7C",
    "U+1F7D", "U+0265", "U+0266", "U+025C", "U+0261", "U+026C", "U+026A", "U+AB53"
    }

\* [0-9]
IsAsciiDigit(c) == \E i \in 1..10 : DigitChars[i] = c

\* \d
IsDigit(c) == \E v \in 1..10 : c \in DecimalDigits[v]

\* int(c) for a decimal digit c
DigitVal(c) == (CHOOSE v \in 1..10 : c \in DecimalDigits[v]) - 1

IsStr(v) == v # None

Max(a, b) == IF a >= b THEN a ELSE b

Min(a, b) == IF a <= b THEN a ELSE b

\* s[p], or "" past the end of s
At(s, p) == IF p >= 1 /\ p <= Len(s) THEN s[p] ELSE ""

LowerOf ==
    [c \in {UpperChars[i] : i \in 1..Len(UpperChars)} |->
        LowerChars[CHOOSE i \in 1..Len(UpperChars) : UpperChars[i] = c]]

lower_char(c) == IF c \in DOMAIN LowerOf THEN LowerOf[c] ELSE c

\* the capital sigma at place i of s is at the end of a word: the nearest
\* character before it that is not case-ignorable is cased, and the nearest
\* after it, if any, is not
final_sigma(s, i) ==
    /\ \E j \in 1..(i - 1) :
          /\ s[j] \in Cased
          /\ \A k \in (j + 1)..(i - 1) : s[k] \in CaseIgnorable
    /\ \A j \in (i + 1)..Len(s) :
          (\A k \in (i + 1)..(j - 1) : s[k] \in CaseIgnorable) => s[j] \notin Cased

\* str.lower()
lower(s) ==
    [i \in 1..Len(s) |->
        IF s[i] = "Σ" /\ final_sigma(s, i) THEN "ς" ELSE lower_char(s[i])]

\* str.strip()
strip(s) ==
    LET keep == {i \in 1..Len(s) : s[i] \notin Whitespace}
    IN  IF keep = {} THEN EmptyStr
        ELSE LET lo == CHOOSE i \in keep : \A j \in keep : i <= j
                 hi == CHOOSE i \in keep : \A j \in keep : i >= j
             IN  SubSeq(s, lo, hi)

\* str.startswith(prefix)
startswith(s, prefix) ==
    Len(s) >= Len(prefix) /\ SubSeq(s, 1, Len(prefix)) = prefix

\* re.sub(r"[^0-9]", "", s)
re_sub_nondigits(s) == SelectSeq(s, IsAsciiDigit)

\* the length of the run of digits of s from position p
DigitRunLen(s, p) ==
    LET others == {q \in p..Len(s) : ~IsDigit(s[q])}
    IN  IF p > Len(s) THEN 0
        ELSE IF others = {} THEN Len(s) - p + 1
        ELSE (CHOOSE q \in others : \A r \in others : q <= r) - p

\* the length of the run of whitespace of s from position p
SpaceRunLen(s, p) ==
    LET others == {q \in p..Len(s) : s[q] \notin Whitespace}
    IN  IF p > Len(s) THEN 0
        ELSE IF others = {} THEN Len(s) - p + 1
        ELSE (CHOOSE q \in others : \A r \in others : q <= r) - p

\* re.findall(r"\d+", s): the maximal digit runs from position p on
RECURSIVE re_findall_digits(_, _)
re_findall_digits(s, p) ==
    IF p > Len(s) THEN << >>
    ELSE IF IsDigit(s[p])
         THEN LET n == DigitRunLen(s, p)
              IN  <<SubSeq(s, p, p + n - 1)>> \o re_findall_digits(s, p + n)
         ELSE re_findall_digits(s, p + 1)

\* sys.int_info.default_max_str_digits: int(s) raises ValueError for more digits
MaxStrDigits == 4300

\* what int(s) is written as when it is 2**31 or more, the integers of the model
\* ending below: a number from 2**31 to 2**63 - 1 (too large for a C int), a
\* number from 2**63 on (too large for a C long), and the int(s) that raises
\* ValueError, s having more than MaxStrDigits digits
BeyondCInt == -1

BeyondCLong == -2

TooManyDigits == -3

\* the digits of 2**31 and of 2**63
CIntLimit == <<2, 1, 4, 7, 4, 8, 3, 6, 4, 8>>

CLongLimit == <<9, 2, 2, 3, 3, 7, 2, 0, 3, 6, 8, 5, 4, 7, 7, 5, 8, 0, 8>>

\* the values of the digits of s, the leading zeros left out
digit_values(s) ==
    LET nonzero == {i \in 1..Len(s) : DigitVal(s[i]) # 0}
        first == IF nonzero = {} THEN Len(s) + 1
                 ELSE CHOOSE i \in nonzero : \A j \in nonzero : i <= j
    IN  [i \in 1..(Len(s) - first + 1) |-> DigitVal(s[first + i - 1])]

\* the number of digits v is below the number of digits limit
below(v, limit) ==
    \/ Len(v) < Len(limit)
    \/ /\ Len(v) = Len(limit)
       /\ \E i \in 1..Len(v) : v[i] < limit[i] /\ \A j \in 1..(i - 1) : v[j] = limit[j]

RECURSIVE value_of(_)
value_of(v) ==
    IF Len(v) = 0 THEN 0
    ELSE 10 * value_of(SubSeq(v, 1, Len(v) - 1)) + v[Len(v)]

\* int(s) for a string of decimal digits
int(s) ==
    IF Len(s) > MaxStrDigits THEN TooManyDigits
    ELSE IF below(digit_values(s), CIntLimit) THEN value_of(digit_values(s))
    ELSE IF below(digit_values(s), CLongLimit) THEN BeyondCInt
    ELSE BeyondCLong

\* str(n) for n >= 0
RECURSIVE str(_)
str(n) ==
    IF n < 10 THEN <<DigitChars[n + 1]>>
    ELSE str(n \div 10) \o <<DigitChars[(n % 10) + 1]>>

\* "%02d" % n
pad2(n) == IF n < 10 THEN <<"0">> \o str(n) ELSE str(n)

-----------------------------------------------------------------------------
(* datetime *)

\* a datetime at midnight; NoDate stands for None (no datetime has year 0)
NoDate == [year |-> 0, month |-> 0, day |-> 0]

IsLeap(y) == (y % 4 = 0) /\ ((y % 100 # 0) \/ (y % 400 = 0))

DaysInMonth(y, m) ==
    IF m = 2 THEN (IF IsLeap(y) THEN 29 ELSE 28)
    ELSE IF m \in {4, 6, 9, 11} THEN 30 ELSE 31

\* datetime(year, month, day) raising OverflowError: an argument is too large
\* for a C int, or for a C long
OverflowCInt == [year |-> BeyondCInt, month |-> 0, day |-> 0]

OverflowCLong == [year |-> BeyondCLong, month |-> 0, day |-> 0]

\* int() raising ValueError for a string of n digits
DigitsError(n) == [year |-> TooManyDigits, month |-> n, day |-> 0]

\* dt stands for an exception that nothing has caught yet
raised(dt) == dt.year < 0

\* the first of the arguments that does not fit a C int, or 0
first_beyond(year, month, day) ==
    IF year < 0 THEN year ELSE IF month < 0 THEN month ELSE IF day < 0 THEN day ELSE 0

\* datetime(year, month, day), NoDate where it raises ValueError
datetime(year, month, day) ==
    IF first_beyond(year, month, day) = BeyondCInt THEN OverflowCInt
    ELSE IF first_beyond(year, month, day) = BeyondCLong THEN OverflowCLong
    ELSE
    IF /\ year >= 1 /\ year <= 9999   \* datetime.MINYEAR, datetime.MAXYEAR
       /\ month >= 1 /\ month <= 12
       /\ day >= 1 /\ day <= DaysInMonth(year, month)
    THEN [year |-> year, month |-> month, day |-> day]
    ELSE NoDate

\* dt > datetime.now(), dt being a midnight: its date is after today's
dt_gt(dt, n) ==
    \/ dt.year > n.year
    \/ dt.year = n.year /\ dt.month > n.month
    \/ dt.year = n.year /\ dt.month = n.month /\ dt.day > n.day

\* dt.strftime("%Y-%m-%d"); the C library's %Y does not pad the year
strftime(dt) == str(dt.year) \o <<"-">> \o pad2(dt.month) \o <<"-">> \o pad2(dt.day)

-----------------------------------------------------------------------------
(* datetime.strptime: the format becomes a regular expression, matched with *)
(* re.match (the first match in the order of the alternatives, as a prefix) *)
(* ignoring case; text left over, or an impossible date, is a ValueError.   *)

MonthAbbr == <<<<"j","a","n">>, <<"f","e","b">>, <<"m","a","r">>, <<"a","p","r">>,
               <<"m","a","y">>, <<"j","u","n">>, <<"j","u","l">>, <<"a","u","g">>,
               <<"s","e","p">>, <<"o","c","t">>, <<"n","o","v">>, <<"d","e","c">>>>

MonthFull == <<<<"j","a","n","u","a","r","y">>, <<"f","e","b","r","u","a","r","y">>,
               <<"m","a","r","c","h">>, <<"a","p","r","i","l">>, <<"m","a","y">>,
               <<"j","u","n","e">>, <<"j","u","l","y">>, <<"a","u","g","u","s","t">>,
               <<"s","e","p","t","e","m","b","e","r">>, <<"o","c","t","o","b","e","r">>,
               <<"n","o","v","e","m","b","e","r">>, <<"d","e","c","e","m","b","e","r">>>>

\* the month names of a directive that s holds at p, as <<length, month>>
NameCands(names, s, p) ==
    LET hit(i) == lower(SubSeq(s, p, Min(Len(s), p + Len(names[i]) - 1))) = names[i]
        RECURSIVE from(_)
        from(i) == IF i > 12 THEN << >>
                   ELSE (IF hit(i) THEN <<<<Len(names[i]), i>>>> ELSE << >>) \o from(i + 1)
    IN  from(1)

\* the ways directive or literal tok matches s at p, in the order the regular
\* expression tries them, each <<length, value>>
Candidates(tok, s, p) ==
    LET a == At(s, p)
        b == At(s, p + 1)
        two == 10 * DigitVal(a) + DigitVal(b)
        nz(c) == IsAsciiDigit(c) /\ c # "0"
    IN  CASE tok = "%d" ->
                \* 3[0-1]|[1-2]\d|0[1-9]|[1-9]| [1-9]
                (IF a = "3" /\ b \in {"0", "1"} THEN <<<<2, two>>>> ELSE << >>)
                \o (IF a \in {"1", "2"} /\ IsDigit(b) THEN <<<<2, two>>>> ELSE << >>)
                \o (IF a = "0" /\ nz(b) THEN <<<<2, two>>>> ELSE << >>)
                \o (IF nz(a) THEN <<<<1, DigitVal(a)>>>> ELSE << >>)
                \o (IF a = " " /\ nz(b) THEN <<<<2, DigitVal(b)>>>> ELSE << >>)
          [] tok = "%m" ->
                \* 1[0-2]|0[1-9]|[1-9]
                (IF a = "1" /\ b \in {"0", "1", "2"} THEN <<<<2, two>>>> ELSE << >>)
                \o (IF a = "0" /\ nz(b) THEN <<<<2, two>>>> ELSE << >>)
                \o (IF nz(a) THEN <<<<1, DigitVal(a)>>>> ELSE << >>)
          [] tok = "%Y" ->
                \* \d\d\d\d
                IF \A i \in 0..3 : IsDigit(At(s, p + i))
                THEN <<<<4, int(SubSeq(s, p, p + 3))>>>> ELSE << >>
          [] tok = "%y" ->
                \* \d\d
                IF IsDigit(a) /\ IsDigit(b) THEN <<<<2, two>>>> ELSE << >>
          [] tok = "%b" -> NameCands(MonthAbbr, s, p)
          [] tok = "%B" -> NameCands(MonthFull, s, p)
          [] tok = " " ->
                \* \s+, the longest run first
                LET n == SpaceRunLen(s, p)
                IN  [i \in 1..n |-> <<n + 1 - i, 0>>]
          [] OTHER ->
                IF lower_char(a) = lower_char(tok) THEN <<<<1, 0>>>> ELSE << >>

NoMatch == [ok |-> FALSE, end |-> 0, g |-> << >>]

\* the first of two attempts that matched
first_ok(r, other) == IF r.ok THEN r ELSE other

\* re.match of the format's tokens from token k on, at position p of s, with
\* the groups g found so far: the i-th and later candidates of token k are tried
RECURSIVE re_match(_, _, _, _, _)
RECURSIVE TryCands(_, _, _, _, _, _, _)
re_match(fmt, k, s, p, g) ==
    IF k > Len(fmt) THEN [ok |-> TRUE, end |-> p, g |-> g]
    ELSE TryCands(fmt, k, s, p, g, Candidates(fmt[k], s, p), 1)
TryCands(fmt, k, s, p, g, cands, i) ==
    IF i > Len(cands) THEN NoMatch
    ELSE first_ok(re_match(fmt, k + 1, s, p + cands[i][1], Append(g, <<fmt[k], cands[i][2]>>)),
                  TryCands(fmt, k, s, p, g, cands, i + 1))

\* the value of group tok among the groups g, or -1
Group(g, tok) ==
    IF \E i \in 1..Len(g) : g[i][1] = tok
    THEN g[CHOOSE i \in 1..Len(g) : g[i][1] = tok][2]
    ELSE -1

\* _strptime's reading of %y: 69..99 are 19xx, 00..68 are 20xx
strptime_century(yy) == IF yy <= 68 THEN 2000 + yy ELSE 1900 + yy

\* the year and the month of the groups of a match
year_of(g) == IF Group(g, "%Y") >= 0 THEN Group(g, "%Y") ELSE strptime_century(Group(g, "%y"))

month_of(g) ==
    IF Group(g, "%m") >= 0 THEN Group(g, "%m")
    ELSE IF Group(g, "%b") >= 0 THEN Group(g, "%b") ELSE Group(g, "%B")

\* the datetime of a match r of s, NoDate where strptime raises ValueError
date_of_match(s, r) ==
    IF ~r.ok \/ r.end # Len(s) + 1 THEN NoDate
    ELSE datetime(year_of(r.g), month_of(r.g), Group(r.g, "%d"))

\* datetime.strptime(s, fmt), NoDate where it raises ValueError
strptime(s, fmt) == date_of_match(s, re_match(fmt, 1, s, 1, << >>))

-----------------------------------------------------------------------------
(* Date Normalizer *)

formats_to_try == <<
    <<"%Y", "-", "%m", "-", "%d">>,
    <<"%Y", "/", "%m", "/", "%d">>,
    <<"%Y", ".", "%m", ".", "%d">>,
    <<"%Y", "%m", "%d">>,
    <<"%d", "-", "%b", "-", "%Y">>,
    <<"%d", "-", "%B", "-", "%Y">>,
    <<"%d", " ", "%b", " ", "%Y">>,
    <<"%d", " ", "%B", " ", "%Y">>,
    <<"%b", "-", "%d", "-", "%Y">>,
    <<"%B", "-", "%d", "-", "%Y">>,
    <<"%b", " ", "%d", " ", "%Y">>,
    <<"%B", " ", "%d", " ", "%Y">>,
    <<"%b", " ", "%d", ",", " ", "%Y">>,
    <<"%B", " ", "%d", ",", " ", "%Y">>,
    <<"%d", "-", "%b", "-", "%y">>,
    <<"%d", "-", "%B", "-", "%y">>,
    <<"%d", " ", "%b", " ", "%y">>,
    <<"%d", ".", "%b", ".", "%Y">>,
    <<"%d", ".", "%B", ".", "%Y">>,
    <<"%d", "/", "%b", "/", "%y">>,
    <<"%d", "/", "%B", "/", "%y">>,
    <<"%Y", "-", "%b", "-", "%d">>,
    <<"%Y", " ", "%b", " ", "%d">> >>

\* the pivot of the two-digit-year rule
PivotYear == 25

\* adjust_two_digit_year(dt)
adjust_two_digit_year(dt) ==
    LET year == IF dt.year <= PivotYear THEN 2000 + dt.year ELSE 1900 + dt.year
    IN  datetime(year, dt.month, dt.day)

\* the two-digit year rule of normalize_date's loop
adjust_if_two_digit(dt) ==
    IF dt = NoDate THEN NoDate
    ELSE IF dt.year < 100 THEN adjust_two_digit_year(dt) ELSE dt

\* the body of normalize_date's try for one format: the datetime it reaches,
\* NoDate where strptime or adjust_two_digit_year raises ValueError
try_format(s, fmt) == adjust_if_two_digit(strptime(s, fmt))

\* the least number of a set of format numbers, or 0
least_or_zero(S) == IF S = {} THEN 0 ELSE CHOOSE i \in S : \A j \in S : i <= j

\* the first format of formats_to_try whose try does not raise, or 0
first_format(s) ==
    least_or_zero({i \in 1..Len(formats_to_try) : try_format(s, formats_to_try[i]) # NoDate})

\* the two-digit year pivot of parse_ambiguous_date
pivot_year(year) ==
    IF year >= 0 /\ year < 100 THEN (IF year <= PivotYear THEN 2000 + year ELSE 1900 + year) ELSE year

\* datetime(year, month, day) when day and month are in range, else NoDate; a
\* day or month of 2**31 or more is out of range
candidate(year, day, month) ==
    IF 1 <= day /\ day <= 31 /\ 1 <= month /\ month <= 12
    THEN datetime(year, month, day) ELSE NoDate

\* part >= n, for a part that may be 2**31 or more
at_least(part, n) == part < 0 \/ part >= n

\* try day-first (d1, m1), then month-first (d2, m2); an OverflowError of the
\* first datetime() is not caught and ends the function
try_candidates(first, second) == IF first # NoDate THEN first ELSE second

resolve_candidates(year, d1, m1, d2, m2) ==
    try_candidates(candidate(pivot_year(year), d1, m1), candidate(pivot_year(year), d2, m2))

\* resolve_parts without the branch of a year in the middle
resolve_parts_no_middle(part1, part2, part3) ==
    IF at_least(part3, 1000) \/ at_least(part3, 32)
        THEN resolve_candidates(part3, part1, part2, part2, part1)
    ELSE IF at_least(part1, 1000) \/ at_least(part1, 32)
        THEN resolve_candidates(part1, part2, part3, part3, part2)
    ELSE resolve_candidates(part3, part1, part2, part2, part1)

\* pick the year spot among the three parts
resolve_parts(part1, part2, part3) ==
    IF at_least(part3, 1000) \/ at_least(part3, 32)
        THEN resolve_candidates(part3, part1, part2, part2, part1)
    ELSE IF at_least(part1, 1000) \/ at_least(part1, 32)
        THEN resolve_candidates(part1, part2, part3, part3, part2)
    ELSE IF at_least(part2, 1000)
        THEN resolve_candidates(part2, part3, part1, part1, part3)
    ELSE resolve_candidates(part3, part1, part2, part2, part1)

\* the first of the three numbers that int() refuses, or 0
first_refused(numbers) ==
    IF int(numbers[1]) = TooManyDigits THEN 1
    ELSE IF int(numbers[2]) = TooManyDigits THEN 2
    ELSE IF int(numbers[3]) = TooManyDigits THEN 3
    ELSE 0

resolve_numbers(numbers) ==
    IF Len(numbers) < 3 THEN NoDate
    ELSE IF first_refused(numbers) # 0 THEN DigitsError(Len(numbers[first_refused(numbers)]))
    ELSE resolve_parts(int(numbers[1]), int(numbers[2]), int(numbers[3]))

\* parse_ambiguous_date(date_str)
parse_ambiguous_date(date_str) == resolve_numbers(re_findall_digits(date_str, 1))

\* an exception that leaves normalize_date: the name of its type, then the
\* characters of str(e)
Raise(type, msg) == <<type>> \o msg

ExceptionTypes == {"OverflowError", "ValueError"}

\* v stands for an exception raised, not for a value returned
IsRaised(v) == v # << >> /\ v[1] \in ExceptionTypes

MsgCInt ==
    <<"s", "i", "g", "n", "e", "d", " ", "i", "n", "t", "e", "g", "e", "r",
      " ", "i", "s", " ", "g", "r", "e", "a", "t", "e", "r", " ", "t", "h",
      "a", "n", " ", "m", "a", "x", "i", "m", "u", "m">>

MsgCLong ==
    <<"P", "y", "t", "h", "o", "n", " ", "i", "n", "t", " ", "t", "o", "o",
      " ", "l", "a", "r", "g", "e", " ", "t", "o", " ", "c", "o", "n", "v",
      "e", "r", "t", " ", "t", "o", " ", "C", " ", "l", "o", "n", "g">>

MsgDigits(n) ==
    <<"E", "x", "c", "e", "e", "d", "s", " ", "t", "h", "e", " ", "l", "i",
      "m", "i", "t", " ", "(", "4", "3", "0", "0", " ", "d", "i", "g", "i",
      "t", "s", ")", " ", "f", "o", "r", " ", "i", "n", "t", "e", "g", "e",
      "r", " ", "s", "t", "r", "i", "n", "g", " ", "c", "o", "n", "v", "e",
      "r", "s", "i", "o", "n", ":", " ", "v", "a", "l", "u", "e", " ", "h",
      "a", "s", " ">>
    \o str(n) \o
    <<" ", "d", "i", "g", "i", "t", "s", ";", " ", "u", "s", "e", " ", "s",
      "y", "s", ".", "s", "e", "t", "_", "i", "n", "t", "_", "m", "a", "x",
      "_", "s", "t", "r", "_", "d", "i", "g", "i", "t", "s", "(", ")", " ",
      "t", "o", " ", "i", "n", "c", "r", "e", "a", "s", "e", " ", "t", "h",
      "e", " ", "l", "i", "m", "i", "t">>

\* the exception that parse_ambiguous_date lets through
exception_of(dt) ==
    IF dt = OverflowCInt THEN Raise("OverflowError", MsgCInt)
    ELSE IF dt = OverflowCLong THEN Raise("OverflowError", MsgCLong)
    ELSE Raise("ValueError", MsgDigits(dt.month))

\* the end of normalize_date's try: a date after now is refused
explicit_result(dt, today) == IF dt_gt(dt, today) THEN None ELSE strftime(dt)

\* ambiguous_result without the test against now
ambiguous_result_no_future_test(normalized_date, today) ==
    IF raised(normalized_date) THEN exception_of(normalized_date)
    ELSE IF normalized_date = NoDate THEN None ELSE strftime(normalized_date)

\* the end of normalize_date after parse_ambiguous_date, whose exceptions
\* nothing catches
ambiguous_result(normalized_date, today) ==
    IF raised(normalized_date) THEN exception_of(normalized_date)
    ELSE IF normalized_date # NoDate /\ dt_gt(normalized_date, today) THEN None
    ELSE IF normalized_date = NoDate THEN None
    ELSE strftime(normalized_date)

\* normalize_date from the number of the format that parsed (0: none did)
date_by_format(s, hit, today) ==
    IF hit # 0 THEN explicit_result(try_format(s, formats_to_try[hit]), today)
    ELSE ambiguous_result(parse_ambiguous_date(s), today)

stripped_date(s, today) == date_by_format(s, first_format(s), today)

\* normalize_date(date_str): the string, or None, or the exception it raises;
\* today is what datetime.now() returns
normalize_date(date_str, today) ==
    IF ~IsStr(date_str) \/ date_str = EmptyStr THEN None
    ELSE stripped_date(strip(date_str), today)

-----------------------------------------------------------------------------
(* Phone Normalizer *)

\* the home country code of the local-number rule
CountryCode == <<"9", "7", "1">>

\* normalize_phone without the length test of the fallback
normalize_phone_no_length(phone) ==
    IF ~IsStr(phone) \/ phone = EmptyStr THEN None
    ELSE IF startswith(phone, <<"+">>)
    THEN LET digits == re_sub_nondigits(Tail(phone))
         IN  IF digits = EmptyStr THEN None
             ELSE IF 8 <= Len(digits) /\ Len(digits) <= 15 THEN <<"+">> \o digits
             ELSE None
    ELSE LET digits == re_sub_nondigits(phone)
         IN  IF digits = EmptyStr THEN None
             ELSE IF startswith(digits, <<"0">>) /\ Len(digits) = 10
                 THEN <<"+">> \o CountryCode \o Tail(digits)
             ELSE <<"+">> \o digits

\* normalize_phone applying the local rule to a number with '+' too
normalize_phone_local_plus(phone) ==
    IF ~IsStr(phone) \/ phone = EmptyStr THEN None
    ELSE LET digits == re_sub_nondigits(phone)
         IN  IF digits = EmptyStr THEN None
             ELSE IF startswith(digits, <<"0">>) /\ Len(digits) = 10
                 THEN <<"+">> \o CountryCode \o Tail(digits)
             ELSE IF 8 <= Len(digits) /\ Len(digits) <= 15
                 THEN <<"+">> \o digits
             ELSE None

\* normalize_phone keeping the leading 0 of a local number
normalize_phone_keep_zero(phone) ==
    IF ~IsStr(phone) \/ phone = EmptyStr THEN None
    ELSE IF startswith(phone, <<"+">>)
    THEN LET digits == re_sub_nondigits(Tail(phone))
         IN  IF digits = EmptyStr THEN None
             ELSE IF 8 <= Len(digits) /\ Len(digits) <= 15 THEN <<"+">> \o digits
             ELSE None
    ELSE LET digits == re_sub_nondigits(phone)
         IN  IF digits = EmptyStr THEN None
             ELSE IF startswith(digits, <<"0">>) /\ Len(digits) = 10
                 THEN <<"+">> \o CountryCode \o digits
             ELSE IF 8 <= Len(digits) /\ Len(digits) <= 15
                 THEN <<"+">> \o digits
             ELSE None

\* normalize_phone(phone): the string, or None
normalize_phone(phone) ==
    IF ~IsStr(phone) \/ phone = EmptyStr THEN None
    ELSE IF startswith(phone, <<"+">>)
    THEN LET digits == re_sub_nondigits(Tail(phone))
         IN  IF digits = EmptyStr THEN None
             ELSE IF 8 <= Len(digits) /\ Len(digits) <= 15 THEN <<"+">> \o digits
             ELSE None
    ELSE LET digits == re_sub_nondigits(phone)
         IN  IF digits = EmptyStr THEN None
             ELSE IF startswith(digits, <<"0">>) /\ Len(digits) = 10
                 THEN <<"+">> \o CountryCode \o Tail(digits)
             ELSE IF startswith(digits, CountryCode) /\ 8 <= Len(digits) /\ Len(digits) <= 15
                 THEN <<"+">> \o digits
             ELSE IF 8 <= Len(digits) /\ Len(digits) <= 15
                 THEN <<"+">> \o digits
             ELSE None

-----------------------------------------------------------------------------
(* Row Normalizer.  A row (a dict) is the sequence of its <<key, value>>    *)
(* items; a value is a string, or None for a field the line does not have.  *)

KeyId == <<"i", "d">>

KeyPhone == <<"p", "h", "o", "n", "e">>

KeyDob == <<"d", "o", "b">>

\* dict.get(key, default); of items with one key the last one stands
dict_get(d, key, default) ==
    LET at == {i \in 1..Len(d) : d[i][1] = key}
    IN  IF at = {} THEN default
        ELSE d[CHOOSE i \in at : \A j \in at : i >= j][2]

\* what an f-string prints for a value
format(v) == IF v = None THEN <<"N", "o", "n", "e">> ELSE v

\* {str(k).lower().strip(): (v.strip() if isinstance(v, str) else "") for k, v in row.items()};
\* the key None is that of the list of a line's surplus values, which is no str
lower_row(row) ==
    [i \in 1..Len(row) |->
        IF row[i][1] = None THEN <<strip(lower(format(None))), EmptyStr>>
        ELSE <<strip(lower(row[i][1])), IF IsStr(row[i][2]) THEN strip(row[i][2]) ELSE EmptyStr>>]

MsgMissingId == <<"M", "i", "s", "s", "i", "n", "g", " ", "i", "d">>

MsgInvalidPhone == <<"I", "n", "v", "a", "l", "i", "d", " ", "p", "h", "o", "n", "e", ":", " ">>

MsgInvalidDate == <<"I", "n", "v", "a", "l", "i", "d", " ", "d", "a", "t", "e", " ", "o", "f", " ",
                    "b", "i", "r", "t", "h", ":", " ">>

\* the dict normalize_row returns; NoRow where it raises
NoRow == [id |-> None, phone |-> None, dob |-> None]

\* normalize_row raising ValueError(e)
raising(e) == [normalized |-> NoRow, e |-> e, raised |-> "ValueError"]

\* normalize_row returning the dict
returned(contact_id, normalized_phone, normalized_dob) ==
    [normalized |-> [id |-> contact_id, phone |-> normalized_phone, dob |-> normalized_dob],
     e |-> None, raised |-> ""]

\* normalize_row left by the exception that normalize_date raised
passed_on(exception) ==
    [normalized |-> NoRow, e |-> Tail(exception), raised |-> exception[1]]

\* checked_row testing the phone before the id
checked_row_phone_first(contact_id, phone, dob, normalized_phone, normalized_dob) ==
    IF normalized_phone = None THEN raising(MsgInvalidPhone \o phone)
    ELSE IF contact_id = EmptyStr THEN raising(MsgMissingId)
    ELSE IF IsRaised(normalized_dob) THEN passed_on(normalized_dob)
    ELSE IF normalized_dob = None THEN raising(MsgInvalidDate \o dob)
    ELSE returned(contact_id, normalized_phone, normalized_dob)

\* the end of normalize_row, the fields being extracted and normalized
checked_row(contact_id, phone, dob, normalized_phone, normalized_dob) ==
    IF contact_id = EmptyStr THEN raising(MsgMissingId)
    ELSE IF normalized_phone = None THEN raising(MsgInvalidPhone \o phone)
    ELSE IF IsRaised(normalized_dob) THEN passed_on(normalized_dob)
    ELSE IF normalized_dob = None THEN raising(MsgInvalidDate \o dob)
    ELSE returned(contact_id, normalized_phone, normalized_dob)

row_fields(contact_id, phone, dob, today) ==
    checked_row(contact_id, phone, dob, normalize_phone(phone), normalize_date(dob, today))

\* normalize_row(row): the normalized dict, or the message e and the type of the
\* exception raised
normalize_row(row, today) ==
    row_fields(strip(dict_get(lower_row(row), KeyId, EmptyStr)),
               strip(dict_get(lower_row(row), KeyPhone, EmptyStr)),
               strip(dict_get(lower_row(row), KeyDob, EmptyStr)), today)

\* f"Row {seq} (ID: {contact_id}): {e}"
error_text(seq, contact_id, e) ==
    <<"R", "o", "w", " ">> \o str(seq) \o <<" ", "(", "I", "D", ":", " ">>
        \o format(contact_id) \o <<")", ":", " ">> \o e

Unknown == <<"u", "n", "k", "n", "o", "w", "n">>

\* a str of Python as a string of TLA+
RECURSIVE as_text(_)
as_text(s) == IF s = << >> THEN "" ELSE Head(s) \o as_text(Tail(s))

\* the dict that normalize_row returns as it travels through the pipeline, its
\* values as texts; NoDict where there is none
NoDict == [id |-> "", phone |-> "", dob |-> ""]

as_dict(normalized) ==
    [id |-> as_text(normalized.id), phone |-> as_text(normalized.phone),
     dob |-> as_text(normalized.dob)]

with_dict(r) == [r EXCEPT !.normalized = IF r.raised = "" THEN as_dict(@) ELSE NoDict]

\* a handler that catches ValueError only
caught_ValueError_only(type) == type = "ValueError"

\* `except Exception` catches the exception of this type
caught(type) == type \in ExceptionTypes

\* worker_pack's return for the outcome r of normalize_row(row), or the
\* exception that its handler does not catch, in the place of err
pack(seq, row, r) ==
    IF r.raised = "" THEN <<seq, r.normalized, None>>
    ELSE IF caught(r.raised)
        THEN <<seq, NoDict, error_text(seq, dict_get(row, KeyId, Unknown), r.e)>>
    ELSE <<seq, NoDict, Raise(r.raised, r.e)>>

\* worker_pack((seq, row)): <<seq, normalized, err>>
worker_pack(seq, row, today) == pack(seq, row, with_dict(normalize_row(row, today)))

\* csv.DictReader: the dict of a line's values under the header's names, the
\* fields the line lacks being None and the values beyond the header being a
\* list under the key None
DictReader_row(names, values) ==
    [i \in 1..Len(names) |-> <<names[i], IF i <= Len(values) THEN values[i] ELSE None>>]
    \o (IF Len(values) > Len(names)
        THEN <<<<None, SubSeq(values, Len(names) + 1, Len(values))>>>>
        ELSE << >>)

-----------------------------------------------------------------------------
(* Bounds and inputs of the pipeline *)

\* the most lines of a short source
MaxRows == 3

\* the largest max_workers given
MaxWorkers == 2

\* the most processors of the machine
MaxCpu == 2

\* DEFAULT_MAX_WORKERS = None; None is written -1
DEFAULT_MAX_WORKERS == -1

DEFAULT_CHUNK_MULTIPLIER == 4

\* the date of a run of the pipeline
Today == [year |-> 2026, month |-> 10, day |-> 30]

\* the dates at which the Date Normalizer is checked
NowSet == {Today, [year |-> 2025, month |-> 6, day |-> 15]}

\* chunk_size = max(256, workers * DEFAULT_CHUNK_MULTIPLIER * 256)
chunk_size(workers) == Max(256, workers * DEFAULT_CHUNK_MULTIPLIER * 256)

\* the header lines of the sources, by name
HeaderNames == {"lower", "mixed"}

Header(name) ==
    IF name = "lower" THEN <<KeyId, KeyPhone, KeyDob>>
    ELSE <<<<"I", "D">>, <<" ", "P", "h", "o", "n", "e">>, <<"D", "o", "B">>>>

Headers == {Header(name) : name \in HeaderNames}

\* lines of a source, as the values of their fields
LineOk == <<<<"A", "1">>, <<"0", "5", "0", "1", "2", "3", "4", "5", "6", "7">>,
            <<"0", "1", "/", "0", "2", "/", "1", "9", "9", "0">>>>

LineNoId == <<<<" ">>, <<"0", "5", "0", "1", "2", "3", "4", "5", "6", "7">>,
              <<"0", "1", "/", "0", "2", "/", "1", "9", "9", "0">>>>

LineSpaced == <<<<" ", "B", "2">>, <<"+", "1", "(", "4", "1", "5", ")", "5", "5", "5", "2", "6", "7", "1">>,
                <<"F", "e", "b", " ", "1", " ", "1", "9", "9", "0">>>>

LineBadPhone == <<<<"A", "3">>, <<"1", "2", "3", "4", "5", "6", "7">>,
                  <<"0", "1", "/", "0", "2", "/", "1", "9", "9", "0">>>>

LineShort == <<<<"A", "4">>, <<"0", "5", "0", "1", "2", "3", "4", "5", "6", "7">>>>

\* a year of 2**31: datetime() raises OverflowError
LineHugeYear == <<<<"A", "5">>, <<"0", "5", "0", "1", "2", "3", "4", "5", "6", "7">>,
                  <<"1", "/", "1", "/", "2", "1", "4", "7", "4", "8", "3", "6", "4", "8">>>>

\* a line of more fields than the header
LineLong == <<<<"A", "6">>, <<"0", "5", "0", "1", "2", "3", "4", "5", "6", "7">>,
              <<"0", "1", "/", "0", "2", "/", "1", "9", "9", "0">>, <<"x">>, <<"I", "D">>>>

\* a line without fields
LineBlank == << >>

LineNames == {"ok", "spaced", "no id", "bad phone", "short", "huge year", "long", "blank"}

Line(name) ==
    CASE name = "ok" -> LineOk
      [] name = "spaced" -> LineSpaced
      [] name = "no id" -> LineNoId
      [] name = "bad phone" -> LineBadPhone
      [] name = "short" -> LineShort
      [] name = "huge year" -> LineHugeYear
      [] name = "long" -> LineLong
      [] name = "blank" -> LineBlank

LinePool == {Line(name) : name \in LineNames}

\* the sequences over S of length at most n
RECURSIVE SeqsUpTo(_, _)
SeqsUpTo(S, n) ==
    IF n = 0 THEN {<< >>}
    ELSE LET shorter == SeqsUpTo(S, n - 1)
         IN  shorter \cup {Append(q, x) : q \in {r \in shorter : Len(r) = n - 1}, x \in S}

\* the lines of the long sources: two more than the largest chunk, so that the
\* source has a second chunk of two rows when the workers are as many as they
\* can be; one more than the chunk of one worker; and a chunk of one worker
\* more than the first
LongRows == chunk_size(Max(1, Min(MaxWorkers, MaxCpu))) + 2

CutRows == chunk_size(1) + 1

LongerRows == LongRows + chunk_size(1)

\* the lines of a long source that fail: the first, the first of the second
\* chunk of one worker, and the last but one of LongRows lines
LongBadPhone == 1

LongHugeYear == chunk_size(1) + 1

LongNoId == LongRows - 1

\* line k of a long source: the lines differ by their id
LongLine(k) ==
    IF k = LongBadPhone THEN <<<<"R">> \o str(k), LineBadPhone[2], LineOk[3]>>
    ELSE IF k = LongHugeYear THEN <<<<"R">> \o str(k), LineOk[2], LineHugeYear[3]>>
    ELSE IF k = LongNoId THEN <<<<" ">>, LineOk[2], LineOk[3]>>
    ELSE <<<<"R">> \o str(k), LineOk[2], LineOk[3]>>

\* the sources, by name: no file, a file without header line, the short
\* sources <<header, end, line, ...>> and the long ones <<header, end, lines>>;
\* the end of a source is "eof", or "error" when reading past its last line
\* raises
Missing == <<"missing">>

Empty == <<"empty">>

Ends == {"eof", "error"}

ShortFiles == {<<h, e>> \o ls : h \in HeaderNames, e \in Ends, ls \in SeqsUpTo(LineNames, MaxRows)}

LongFile == <<"lower", "eof", "long lines">>

CutFile == <<"lower", "error", "cut lines">>

LongerFile == <<"lower", "eof", "longer lines">>

LongFiles == {LongFile, CutFile, LongerFile}

FileNames == {Missing, Empty} \cup ShortFiles \cup LongFiles

lines_of(f) ==
    IF f = LongFile THEN [k \in 1..LongRows |-> LongLine(k)]
    ELSE IF f = CutFile THEN [k \in 1..CutRows |-> LongLine(k)]
    ELSE IF f = LongerFile THEN [k \in 1..LongerRows |-> LongLine(k)]
    ELSE [i \in 1..(Len(f) - 2) |-> Line(f[i + 2])]

\* csv.DictReader skips the lines without fields
NotBlank(values) == values # << >>

DictReader(lines) == SelectSeq(lines, NotBlank)

NoSource == [exists |-> FALSE, header |-> "", fieldnames |-> None, rows |-> << >>,
             read_error |-> FALSE]

\* the file system: what is found under each name
Files ==
    [f \in FileNames |->
        IF f = Missing THEN NoSource
        ELSE IF f = Empty THEN [NoSource EXCEPT !.exists = TRUE]
        ELSE [exists |-> TRUE, header |-> f[1], fieldnames |-> Header(f[1]),
              rows |-> DictReader(lines_of(f)), read_error |-> (f[2] = "error")]]

\* self.input_file.exists()
input_exists == Files[input_file].exists

\* reader.fieldnames: the header, or None
fieldnames == Files[input_file].fieldnames

\* the data rows of the source, as lists of field values
rows == Files[input_file].rows

\* whether reading past the last row of rows raises
read_error == Files[input_file].read_error

\* normalize_row(row) of every row of the sources, computed once for the day
\* of the run
RowKeys ==
    {<<h, Line(name)>> : h \in HeaderNames, name \in LineNames}
    \cup {<<"lower", LongLine(k)>> : k \in 1..LongerRows}

Normalized ==
    [key \in RowKeys |-> with_dict(normalize_row(DictReader_row(Header(key[1]), key[2]), Today))]

\* the dict of data row k of source f, its sequence number and the outcome of
\* normalize_row for it
row_of(f, k) == DictReader_row(Files[f].fieldnames, Files[f].rows[k])

seq_of(k) == k + 1

outcome_of(f, k) == Normalized[<<Files[f].header, Files[f].rows[k]>>]

row_at(k) == row_of(input_file, k)

outcome(k) == outcome_of(input_file, k)

\* worker_pack((seq, row)) of every row of every source, computed once
Results ==
    [f \in FileNames |->
        [k \in 1..Len(Files[f].rows) |-> pack(seq_of(k), row_of(f, k), outcome_of(f, k))]]

\* the rows of a source for which worker_pack raises
Escaping ==
    [f \in FileNames |-> {k \in 1..Len(Results[f]) : IsRaised(Results[f][k][3])}]

-----------------------------------------------------------------------------
(* Ordered Concurrent Pipeline *)

NoStats == [total |-> 0, normalized |-> 0, skipped |-> 0, errors |-> << >>]

NoFile == [exists |-> FALSE, header |-> FALSE, rows |-> << >>]

\* a task of the pool: its index and the data rows chunk[1]..chunk[2] of the
\* source it holds
NoTask == [i |-> -1, kind |-> "none", chunk |-> <<1, 0>>]

\* task is the task that the task thread has read and is putting on the task
\* pipe; swapped is history: a result has arrived before the result of an
\* earlier task
NoPool == [workers |-> 0, rdpos |-> 0, gen |-> "off", ntasks |-> 0, task |-> NoTask,
           inqueue |-> << >>, busy |-> << >>, outqueue |-> << >>, items |-> << >>,
           unsorted |-> << >>, index |-> 0, length |-> -1, swapped |-> FALSE]

\* the task pipe of the pool, os.pipe(): 16 pages of 4096 bytes
PipeBytes == 16 * 4096

RECURSIVE sum(_)
sum(numbers) == IF numbers = << >> THEN 0 ELSE Head(numbers) + sum(Tail(numbers))

\* The bytes that pickle writes for a task are at least those of its rows.
\* A str takes an opcode, its length, a byte or more for each character and
\* the opcode that puts it in the memo; the empty str and the strs of one
\* character can be objects met before, which take an opcode and an index.
str_bytes(s) == IF Len(s) <= 1 THEN 2 ELSE Len(s) + 3

\* a non-negative int: an opcode and 1, 2 or 4 bytes
int_bytes(n) == IF n < 256 THEN 2 ELSE IF n < 65536 THEN 3 ELSE 5

\* a list: two opcodes, its items and APPEND, or MARK and APPENDS
list_bytes(l) ==
    2 + sum([i \in 1..Len(l) |-> str_bytes(l[i])]) + Min(Len(l), 2)

\* an item of a row: the key is None, or a str of the header that is in the
\* memo; the value is the list of the surplus values under the key None, and
\* None or a str under the others
item_bytes(item) ==
    IF item[1] = None THEN 1 + list_bytes(item[2])
    ELSE 2 + (IF item[2] = None THEN 1 ELSE str_bytes(item[2]))

\* a row: two opcodes, the items of its keys, of items with one key the last,
\* and SETITEM, or MARK and SETITEMS
dict_bytes(row) ==
    LET last == {i \in 1..Len(row) : \A j \in (i + 1)..Len(row) : row[j][1] # row[i][1]}
    IN  2 + sum([i \in 1..Len(row) |-> IF i \in last THEN item_bytes(row[i]) ELSE 0])
          + Min(Cardinality(last), 2)

\* (seq, row): the number, the row and two opcodes
row_bytes(seq, row) == int_bytes(seq) + dict_bytes(row) + 2

RowBytes ==
    [f \in FileNames |-> [k \in 1..Len(Files[f].rows) |-> row_bytes(seq_of(k), row_of(f, k))]]

RECURSIVE rows_bytes(_, _, _)
rows_bytes(f, first, last) ==
    IF first > last THEN 0
    ELSE IF first = last THEN RowBytes[f][first]
    ELSE LET middle == (first + last) \div 2
         IN  rows_bytes(f, first, middle) + rows_bytes(f, middle + 1, last)

\* the rows of the i-th task of a source read in chunks of size rows, i = 0, 1, ...
chunk_of(f, size, i) == <<i * size + 1, Min((i + 1) * size, Len(Files[f].rows))>>

\* the least bytes of the tasks of every source, for every number of workers
ChunkBytes ==
    [f \in FileNames |->
        [workers \in 1..MaxCpu |->
            [i \in 0..(Len(Files[f].rows) \div chunk_size(workers)) |->
                rows_bytes(f, chunk_of(f, chunk_size(workers), i)[1],
                              chunk_of(f, chunk_size(workers), i)[2])]]]

\* _resolve_workers()
resolve_workers ==
    IF max_workers = 0 THEN Max(1, cpu_count)
    ELSE IF max_workers > 0 THEN Max(1, Min(max_workers, cpu_count))
    ELSE 1

\* fold_outcome without errors.append
fold_outcome_no_append(st, err) ==
    IF err # None /\ err # EmptyStr
    THEN [st EXCEPT !.total = @ + 1, !.skipped = @ + 1]
    ELSE [st EXCEPT !.total = @ + 1, !.normalized = @ + 1]

\* fold_outcome counting a failed row as normalized too
fold_outcome_both(st, err) ==
    IF err # None /\ err # EmptyStr
    THEN [st EXCEPT !.total = @ + 1, !.skipped = @ + 1, !.normalized = @ + 1,
                    !.errors = Append(@, err)]
    ELSE [st EXCEPT !.total = @ + 1, !.normalized = @ + 1]

\* the loop's fold of one outcome into self.stats
fold_outcome(st, err) ==
    IF err # None /\ err # EmptyStr
    THEN [st EXCEPT !.total = @ + 1, !.skipped = @ + 1, !.errors = Append(@, err)]
    ELSE [st EXCEPT !.total = @ + 1, !.normalized = @ + 1]

\* buffer[seq] = (normalized, None) or (None, err)
buffer_put(buf, seq, normalized, err) ==
    [k \in DOMAIN buf \cup {seq} |->
        IF k = seq THEN (IF err # None /\ err # EmptyStr THEN <<NoDict, err>> ELSE <<normalized, None>>)
        ELSE buf[k]]

\* write_ready without the test `if item`
RECURSIVE write_ready_unchecked(_)
write_ready_unchecked(w) ==
    IF w[1] \in DOMAIN w[2]
    THEN write_ready_unchecked(<<w[1] + 1,
                                 [k \in DOMAIN w[2] \ {w[1]} |-> w[2][k]],
                                 Append(w[3], w[2][w[1]][1]),
                                 Append(w[4], w[1])>>)
    ELSE w

\* write_ready reading buffer[next_to_write] without popping it
write_ready_keep(w) ==
    IF w[1] \in DOMAIN w[2]
    THEN <<w[1] + 1, w[2],
           IF w[2][w[1]][1] # NoDict THEN Append(w[3], w[2][w[1]][1]) ELSE w[3],
           Append(w[4], w[1])>>
    ELSE w

\* while next_to_write in buffer: pop it, write its row if it has one, step on.
\* w is <<next_to_write, buffer, written rows, popped>>
RECURSIVE write_ready(_)
write_ready(w) ==
    IF w[1] \in DOMAIN w[2]
    THEN LET item == w[2][w[1]][1]
         IN  write_ready(<<w[1] + 1,
                           [k \in DOMAIN w[2] \ {w[1]} |-> w[2][k]],
                           IF item # NoDict THEN Append(w[3], item) ELSE w[3],
                           Append(w[4], w[1])>>)
    ELSE w

\* IMapIterator._set(i, obj): results reach _items in the order of their index
RECURSIVE imap_release(_)
imap_release(pl) ==
    IF pl.index \in DOMAIN pl.unsorted
    THEN imap_release([pl EXCEPT !.items = Append(@, pl.unsorted[pl.index]),
                                 !.unsorted = [k \in DOMAIN pl.unsorted \ {pl.index} |-> pl.unsorted[k]],
                                 !.index = @ + 1])
    ELSE pl

\* imap_set handing every result to the loop as it completes
imap_set_as_completed(pl, i, obj) ==
    [pl EXCEPT !.items = Append(@, obj), !.index = @ + 1, !.swapped = (@ \/ i # pl.index)]

imap_set(pl, i, obj) ==
    IF i = pl.index
    THEN imap_release([pl EXCEPT !.items = Append(@, obj), !.index = @ + 1])
    ELSE [pl EXCEPT !.unsorted = [k \in DOMAIN pl.unsorted \cup {i} |->
                                      IF k = i THEN obj ELSE pl.unsorted[k]],
                    !.swapped = TRUE]

\* a list of outcomes on its way from a worker to the loop is written as the
\* rows it holds the outcomes of, <<first, last>>; the outcomes are those of
\* Results
NoOutcomes == <<1, 0>>

outcomes_left(list) == list[1] <= list[2]

next_outcome(list) == Results[input_file][list[1]]

rest_of(list) == <<list[1] + 1, list[2]>>

\* mapstar(worker_pack, chunk): the list of the outcomes of the chunk's rows;
\* the task fails when worker_pack raises for one of them, and the task put in
\* the place of a chunk the reader failed on re-raises the reader's exception
run_task(task) ==
    IF task.kind = "chunk"
       /\ \A k \in Escaping[input_file] : k < task.chunk[1] \/ k > task.chunk[2]
    THEN [ok |-> TRUE, value |-> task.chunk]
    ELSE [ok |-> FALSE, value |-> NoOutcomes]

\* the error text of _process_single's except branch
single_error(seq, row, e) ==
    error_text(seq, dict_get(lower_row(row), KeyId, Unknown), e)

-----------------------------------------------------------------------------
(* process() *)

\* the state in which process() is called: a short source under every
\* max_workers and every number of processors, or one of the long runs
Start(long_runs) ==
    /\ now = Today
    /\ \/ /\ input_file \in FileNames \ LongFiles
          /\ max_workers \in {DEFAULT_MAX_WORKERS, 0, MaxWorkers}
          /\ cpu_count \in 1..MaxCpu
       \/ /\ max_workers = MaxWorkers
          /\ \E run \in long_runs : input_file = run[1] /\ cpu_count = run[2]
    /\ pc = "start"
    /\ ret = FALSE
    /\ stats = NoStats
    /\ outfile = NoFile
    /\ idx = 0
    /\ pool = NoPool
    /\ cur = NoOutcomes
    /\ next_to_write = 0
    /\ buffer = << >>
    /\ popped = << >>
    /\ counted = << >>
    /\ fn_arg = None /\ fn_ret = None /\ fn_pc = "idle"

\* the long runs: the long source with as many workers as can be, and the cut
\* one with one worker
Init == Start({<<LongFile, MaxCpu>>, <<CutFile, 1>>})

inputs == <<now, input_file, max_workers, cpu_count>>

fn_vars == <<fn_arg, fn_ret, fn_pc>>

multi_vars == <<pool, cur, next_to_write, buffer, popped>>

\* _process_single up to its loop
StartSingle ==
    /\ pc = "start" /\ max_workers = DEFAULT_MAX_WORKERS
    /\ IF ~input_exists
       THEN pc' = "done" /\ ret' = FALSE /\ outfile' = outfile
       ELSE IF fieldnames = None
       THEN pc' = "done" /\ ret' = FALSE
            /\ outfile' = [exists |-> TRUE, header |-> FALSE, rows |-> << >>]
       ELSE pc' = "single" /\ ret' = ret
            /\ outfile' = [exists |-> TRUE, header |-> TRUE, rows |-> << >>]
    /\ UNCHANGED <<inputs, stats, idx, multi_vars, counted, fn_vars>>

\* the loop body of _process_single for data row `row` with outcome r: an
\* exception that the inner handler does not catch leaves the row counted in
\* total only
single_stats(st, seq, row, r) ==
    IF r.raised = ""
    THEN [st EXCEPT !.total = @ + 1, !.normalized = @ + 1]
    ELSE IF caught(r.raised)
    THEN [st EXCEPT !.total = @ + 1, !.skipped = @ + 1,
                    !.errors = Append(@, single_error(seq, row, r.e))]
    ELSE [st EXCEPT !.total = @ + 1]

single_write(written, r) == IF r.raised = "" THEN Append(written, r.normalized) ELSE written

\* one pass of _process_single's loop; an exception that the inner handler
\* does not catch reaches the outer one, and _process_single returns False
SingleRow ==
    /\ pc = "single" /\ idx < Len(rows)
    /\ outfile' = [outfile EXCEPT !.rows = single_write(@, outcome(idx + 1))]
    /\ stats' = single_stats(stats, seq_of(idx + 1), row_at(idx + 1), outcome(idx + 1))
    /\ idx' = idx + 1
    /\ counted' = Append(counted, seq_of(idx + 1))
    /\ IF outcome(idx + 1).raised = "" \/ caught(outcome(idx + 1).raised)
       THEN pc' = pc /\ ret' = ret
       ELSE pc' = "done" /\ ret' = FALSE
    /\ UNCHANGED <<inputs, multi_vars, fn_vars>>

\* the reader is exhausted, or raises: _process_single returns
SingleEnd ==
    /\ pc = "single" /\ idx = Len(rows)
    /\ pc' = "done"
    /\ ret' = ~read_error
    /\ UNCHANGED <<inputs, stats, outfile, idx, multi_vars, counted, fn_vars>>

\* StartMulti without the test of reader.fieldnames
StartMulti_no_header_test ==
    /\ pc = "start" /\ max_workers # DEFAULT_MAX_WORKERS
    /\ IF ~input_exists
       THEN pc' = "done" /\ ret' = FALSE /\ outfile' = outfile
            /\ UNCHANGED <<pool, next_to_write>>
       ELSE pc' = "multi" /\ ret' = ret
            /\ outfile' = [exists |-> TRUE, header |-> TRUE, rows |-> << >>]
            /\ pool' = [NoPool EXCEPT !.workers = resolve_workers, !.gen = "run",
                                      !.busy = [w \in 1..resolve_workers |-> NoTask]]
            /\ next_to_write' = 2
    /\ UNCHANGED <<inputs, stats, idx, cur, buffer, popped, counted, fn_vars>>

\* _process_multiprocess up to its loop
StartMulti ==
    /\ pc = "start" /\ max_workers # DEFAULT_MAX_WORKERS
    /\ IF ~input_exists
       THEN pc' = "done" /\ ret' = FALSE /\ outfile' = outfile
            /\ UNCHANGED <<pool, next_to_write>>
       ELSE IF fieldnames = None
       THEN pc' = "done" /\ ret' = FALSE
            /\ outfile' = [exists |-> TRUE, header |-> TRUE, rows |-> << >>]
            /\ UNCHANGED <<pool, next_to_write>>
       ELSE pc' = "multi" /\ ret' = ret
            /\ outfile' = [exists |-> TRUE, header |-> TRUE, rows |-> << >>]
            /\ pool' = [NoPool EXCEPT !.workers = resolve_workers, !.gen = "run",
                                      !.busy = [w \in 1..resolve_workers |-> NoTask]]
            /\ next_to_write' = 2
    /\ UNCHANGED <<inputs, stats, idx, cur, buffer, popped, counted, fn_vars>>

\* the least bytes of a task of the run; of the task that re-raises the
\* reader's exception none is counted
task_bytes(task) ==
    IF task.kind = "chunk" THEN ChunkBytes[input_file][pool.workers][task.i] ELSE 0

\* a worker waits in get(): it reads the first task out of the pipe
receiving == \E w \in DOMAIN pool.busy : pool.busy[w] = NoTask

\* put(task) returns when the pipe has taken the whole task: the tasks written
\* before it and not taken by a worker are in the pipe still, but for the one
\* that a worker is reading out
pipe_takes(task) ==
    LET written == Append(pool.inqueue, task)
        held == IF receiving THEN Tail(written) ELSE written
    IN  sum([k \in 1..Len(held) |-> task_bytes(held[k])]) <= PipeBytes

\* the pool's task thread, between two tasks, reads the next chunk of
\* row_stream(), chunk_size rows or the rows that are left (Pool._get_tasks);
\* nothing in the loop's progress is waited for
FeedChunk ==
    /\ pc \in {"multi", "flush"} /\ pool.gen = "run" /\ pool.task = NoTask
    /\ LET left == Len(rows) - pool.rdpos
           n == Min(chunk_size(pool.workers), left)
       IN  /\ left >= 1
           /\ read_error => left >= chunk_size(pool.workers)
           /\ pool' = [pool EXCEPT
                          !.rdpos = @ + n,
                          !.ntasks = @ + 1,
                          !.task = [i |-> pool.ntasks, kind |-> "chunk",
                                    chunk |-> <<pool.rdpos + 1, pool.rdpos + n>>]]
    /\ UNCHANGED <<inputs, pc, ret, stats, outfile, idx, cur, next_to_write, buffer,
                   popped, counted, fn_vars>>

\* the reader raises while a chunk is read: the rows read into the chunk are
\* lost and a task that re-raises the exception comes in its place
FeedError ==
    /\ pc \in {"multi", "flush"} /\ pool.gen = "run" /\ pool.task = NoTask
    /\ read_error /\ Len(rows) - pool.rdpos < chunk_size(pool.workers)
    /\ pool' = [pool EXCEPT
                   !.rdpos = Len(rows),
                   !.ntasks = @ + 1,
                   !.gen = "raised",
                   !.task = [i |-> pool.ntasks, kind |-> "raise", chunk |-> <<1, 0>>]]
    /\ UNCHANGED <<inputs, pc, ret, stats, outfile, idx, cur, next_to_write, buffer,
                   popped, counted, fn_vars>>

\* put(task) of Pool._handle_tasks returns: the task thread has written the
\* task it read to the task pipe, waiting while the pipe was full
FeedPut ==
    /\ pc \in {"multi", "flush"} /\ pool.task # NoTask
    /\ pipe_takes(pool.task)
    /\ pool' = [pool EXCEPT !.inqueue = Append(@, pool.task), !.task = NoTask]
    /\ UNCHANGED <<inputs, pc, ret, stats, outfile, idx, cur, next_to_write, buffer,
                   popped, counted, fn_vars>>

\* row_stream() is exhausted: the task thread sets the iterator's length
FeedEnd ==
    /\ pc \in {"multi", "flush"} /\ pool.task = NoTask
    /\ IF pool.gen = "run" THEN pool.rdpos = Len(rows) /\ ~read_error
       ELSE pool.gen = "raised"
    /\ pool' = [pool EXCEPT !.gen = "done", !.length = pool.ntasks]
    /\ UNCHANGED <<inputs, pc, ret, stats, outfile, idx, cur, next_to_write, buffer,
                   popped, counted, fn_vars>>

\* an idle worker has read the next task out of the task pipe
WorkerTake(w) ==
    /\ pc \in {"multi", "flush"}
    /\ pool.busy[w] = NoTask /\ pool.inqueue # << >>
    /\ pool' = [pool EXCEPT !.busy[w] = Head(pool.inqueue), !.inqueue = Tail(@)]
    /\ UNCHANGED <<inputs, pc, ret, stats, outfile, idx, cur, next_to_write, buffer,
                   popped, counted, fn_vars>>

\* a worker completes its task, puts the result on the pool's result queue
\* and is free for its next task
WorkerFinish(w) ==
    /\ pc \in {"multi", "flush"}
    /\ pool.busy[w] # NoTask
    /\ pool' = [pool EXCEPT !.busy[w] = NoTask,
                            !.outqueue = Append(@, <<pool.busy[w].i, run_task(pool.busy[w])>>)]
    /\ UNCHANGED <<inputs, pc, ret, stats, outfile, idx, cur, next_to_write, buffer,
                   popped, counted, fn_vars>>

\* the pool's result thread takes a result off the result queue and hands it
\* to the iterator
HandleResult ==
    /\ pc \in {"multi", "flush"}
    /\ pool.outqueue # << >>
    /\ pool' = imap_set([pool EXCEPT !.outqueue = Tail(@)],
                        Head(pool.outqueue)[1], Head(pool.outqueue)[2])
    /\ UNCHANGED <<inputs, pc, ret, stats, outfile, idx, cur, next_to_write, buffer,
                   popped, counted, fn_vars>>

\* the loop of _process_multiprocess takes the next outcome of pool.imap(...),
\* folds it into self.stats and puts it into buffer
MainReceive ==
    /\ pc = "multi"
    /\ IF outcomes_left(cur) THEN TRUE ELSE pool.items # << >> /\ Head(pool.items).ok
    /\ LET src == IF outcomes_left(cur) THEN cur ELSE Head(pool.items).value
           seq == next_outcome(src)[1]
           normalized == next_outcome(src)[2]
           err == next_outcome(src)[3]
       IN  /\ cur' = rest_of(src)
           /\ stats' = fold_outcome(stats, err)
           /\ counted' = Append(counted, seq)
           /\ buffer' = buffer_put(buffer, seq, normalized, err)
    /\ pool' = IF outcomes_left(cur) THEN pool ELSE [pool EXCEPT !.items = Tail(@)]
    /\ pc' = "flush"
    /\ UNCHANGED <<inputs, ret, outfile, idx, next_to_write, popped, fn_vars>>

\* MainFlush leaving the buffer as it is
MainFlush_nothing ==
    /\ pc = "flush"
    /\ pc' = "multi"
    /\ UNCHANGED <<inputs, ret, stats, outfile, idx, multi_vars, counted, fn_vars>>

\* the same pass writes any contiguous ready rows in order
MainFlush ==
    /\ pc = "flush"
    /\ LET w == write_ready(<<next_to_write, buffer, outfile.rows, popped>>)
       IN  /\ next_to_write' = w[1]
           /\ buffer' = w[2]
           /\ outfile' = [outfile EXCEPT !.rows = w[3]]
           /\ popped' = w[4]
    /\ pc' = "multi"
    /\ UNCHANGED <<inputs, ret, stats, idx, pool, cur, counted, fn_vars>>

\* the iterator re-raises the exception of a task, the reader's or one that
\* worker_pack let through: _process_multiprocess returns False
MainRaise ==
    /\ pc = "multi"
    /\ ~outcomes_left(cur) /\ pool.items # << >> /\ ~Head(pool.items).ok
    /\ pc' = "done"
    /\ ret' = FALSE
    /\ UNCHANGED <<inputs, stats, outfile, idx, multi_vars, counted, fn_vars>>

\* the iterator is exhausted: the loop ends
MainStop ==
    /\ pc = "multi"
    /\ ~outcomes_left(cur) /\ pool.items = << >> /\ pool.index = pool.length
    /\ pc' = "drain"
    /\ UNCHANGED <<inputs, ret, stats, outfile, idx, multi_vars, counted, fn_vars>>

\* the safety drain after the loop, and the return
Drain ==
    /\ pc = "drain"
    /\ LET w == write_ready(<<next_to_write, buffer, outfile.rows, popped>>)
       IN  /\ next_to_write' = w[1]
           /\ buffer' = w[2]
           /\ outfile' = [outfile EXCEPT !.rows = w[3]]
           /\ popped' = w[4]
    /\ pc' = "done"
    /\ ret' = TRUE
    /\ UNCHANGED <<inputs, stats, idx, pool, cur, counted, fn_vars>>

Next ==
    \/ StartSingle
    \/ SingleRow
    \/ SingleEnd
    \/ StartMulti
    \/ FeedChunk
    \/ FeedError
    \/ FeedPut
    \/ FeedEnd
    \/ \E w \in 1..MaxCpu : w \in DOMAIN pool.busy /\ WorkerTake(w)
    \/ \E w \in 1..MaxCpu : w \in DOMAIN pool.busy /\ WorkerFinish(w)
    \/ HandleResult
    \/ MainReceive
    \/ MainFlush
    \/ MainRaise
    \/ MainStop
    \/ Drain

Spec == Init /\ [][Next]_vars

\* process() with one worker on the long source and on the longer one
InitFeed == Start({<<LongFile, 1>>, <<LongerFile, 1>>})

SpecFeed == InitFeed /\ [][Next]_vars

-----------------------------------------------------------------------------
(* The Date Normalizer on its own: normalize_date applied to one input *)

\* numbers of a numeric date, as they are written
NumTokens == {<<"0">>, <<"1">>, <<"0", "2">>, <<"0", "3">>, <<"1", "2">>, <<"1", "3">>,
              <<"2", "5">>, <<"2", "6">>, <<"3", "1">>, <<"3", "2">>, <<"9", "9">>,
              <<"1", "9", "9", "0">>, <<"2", "0", "2", "6">>, <<"2", "0", "2", "7">>}

DayTokens == {<<"0", "1">>, <<"5">>, <<"2", "9">>, <<"3", "1">>}

MonthTokens == {<<"F", "e", "b">>, <<"f", "e", "b", "r", "u", "a", "r", "y">>, <<"D", "E", "C">>}

YearTokens == {<<"0", "0">>, <<"2", "5">>, <<"2", "6">>, <<"3", "0">>, <<"6", "8">>, <<"6", "9">>,
               <<"9", "9">>, <<"1", "9", "9", "0">>, <<"2", "0", "2", "6">>}

NumSeparators == {<<"/">>, <<"-">>}

NameSeparators == {<<"-">>, <<" ">>, <<"/">>, <<".">>}

OtherDates == {EmptyStr, None, <<" ">>,
               <<"1", "9", "9", "0", "0", "2", "0", "1">>,
               <<"1", "9", "9", "0", "1", "2", "1">>,
               <<"0", "0", "9", "0", "-", "0", "1", "-", "0", "2">>,
               <<"F", "e", "b", " ", "3", "0", " ", "1", "9", "9", "0">>,
               <<"F", "e", "b", "-", " ", "5", "-", "1", "9", "9", "0">>,
               <<"F", "e", "b", "r", "u", "a", "r", "y", " ", "1", ",", " ", "1", "9", "9", "0">>,
               <<"1", "9", "9", "0", "-", "0", "2", "-", "0", "1", "x">>,
               <<"0", "1", "-", "0", "2">>,
               <<"1", "\n", "F", "e", "b", "\n", "1", "9", "9", "0">>,
               <<"\f", "0", "1", "/", "0", "2", "/", "1", "9", "9", "0", "\r", "\n">>,
               <<"۰", "۱", "/", "۰", "۲", "/", "۱", "۹", "۹", "۰">>,
               <<"1", "۳", "/", "2", "/", "1", "9", "9", "0">>,
               <<"۱", "۹", "۹", "۰", "-", "۰", "۲", "-", "۰", "۱">>,
               <<"0", "1", "-", "F", "e", "b", "-", "۳", "۰">>,
               <<"۱", "۳", "/", "۲", "۵", "/", "۳", "۰">>,
               <<"۲", "۰", "۲", "۷", "/", "۱", "/", "۲">>}

DateInputs ==
    {a \o s \o b \o s \o c : a \in NumTokens, b \in NumTokens, c \in NumTokens, s \in NumSeparators}
    \cup {d \o s \o m \o s \o y : d \in DayTokens, m \in MonthTokens, y \in YearTokens,
                                  s \in NameSeparators}
    \cup OtherDates

InitDate ==
    /\ now \in NowSet
    /\ fn_arg \in DateInputs
    /\ fn_ret = None
    /\ fn_pc = "ready"
    /\ input_file = Missing
    /\ max_workers = DEFAULT_MAX_WORKERS /\ cpu_count = 1
    /\ pc = "off" /\ ret = FALSE /\ stats = NoStats /\ outfile = NoFile /\ idx = 0
    /\ pool = NoPool /\ cur = NoOutcomes /\ next_to_write = 0 /\ buffer = << >>
    /\ popped = << >> /\ counted = << >>

ApplyDate ==
    /\ fn_pc = "ready"
    /\ fn_ret' = normalize_date(fn_arg, now)
    /\ fn_pc' = "done"
    /\ UNCHANGED <<inputs, fn_arg, pc, ret, stats, outfile, idx, multi_vars, counted>>

NextDate == ApplyDate

SpecDate == InitDate /\ [][NextDate]_vars

-----------------------------------------------------------------------------
(* The Row Normalizer on its own: normalize_row applied to one row *)

RowHeaders == Headers \cup {<<KeyPhone, KeyDob>>, <<KeyPhone, KeyDob, <<"I", "d", " ">>>>,
                             <<<<"I", "d", " ">>, KeyPhone, KeyDob, <<"É", "Σ">>>>}

RowIds == {EmptyStr, <<" ", " ">>, <<"\n">>, <<"A", "1", "\r", "\n">>, <<"A", "1">>, <<" ", "B", "2", " ">>}

RowPhones == {EmptyStr, <<"1", "2", "3", "4", "5", "6", "7">>, <<"+">>,
              <<"0", "5", "0", "1", "2", "3", "4", "5", "6", "7">>,
              <<" ", "+", "1", " ", "4", "1", "5", " ", "5", "5", "5", " ", "2", "6", "7", "1">>}

RowDobs == {EmptyStr, <<"F", "e", "b", " ", "3", "0", " ", "1", "9", "9", "0">>,
            <<"0", "1", "/", "0", "2", "/", "1", "9", "9", "0">>,
            <<"3", "1", "/", "1", "2", "/", "2", "0", "2", "6">>,
            <<"1", "/", "1", "/", "2", "1", "4", "7", "4", "8", "3", "6", "4", "8">>,
            <<"۰", "۱", "/", "۰", "۲", "/", "۱", "۹", "۹", "۰">>}

\* the value of a row built from an id, a phone and a dob under the header's name
field_of(name, id, phone, dob) ==
    IF strip(lower(name)) = KeyId THEN id
    ELSE IF strip(lower(name)) = KeyPhone THEN phone ELSE dob

RowInputs ==
    {[id |-> IF \E i \in 1..Len(h) : strip(lower(h[i])) = KeyId THEN id ELSE None,
      phone |-> phone,
      dob |-> dob,
      row |-> [i \in 1..Len(h) |-> <<h[i], field_of(h[i], id, phone, dob)>>]] :
        h \in RowHeaders, id \in RowIds, phone \in RowPhones, dob \in RowDobs}

InitRow ==
    /\ now = Today
    /\ fn_arg \in RowInputs
    /\ fn_ret = None
    /\ fn_pc = "ready"
    /\ input_file = Missing
    /\ max_workers = DEFAULT_MAX_WORKERS /\ cpu_count = 1
    /\ pc = "off" /\ ret = FALSE /\ stats = NoStats /\ outfile = NoFile /\ idx = 0
    /\ pool = NoPool /\ cur = NoOutcomes /\ next_to_write = 0 /\ buffer = << >>
    /\ popped = << >> /\ counted = << >>

ApplyRow ==
    /\ fn_pc = "ready"
    /\ fn_ret' = normalize_row(fn_arg.row, now)
    /\ fn_pc' = "done"
    /\ UNCHANGED <<inputs, fn_arg, pc, ret, stats, outfile, idx, multi_vars, counted>>

NextRow == ApplyRow

SpecRow == InitRow /\ [][NextRow]_vars

-----------------------------------------------------------------------------
(* The Phone Normalizer on its own: normalize_phone applied to one value,  *)
(* and once more to what it returned                                        *)

\* the longest run of digits of an input
MaxDigits == 16

\* n digits: 5, 6, 7, ...
digits_run(n) == [i \in 1..n |-> DigitChars[((i + 4) % 10) + 1]]

PhonePrefixes == {EmptyStr, <<"+">>, <<"0">>, <<"+", "0">>, <<"9", "7", "1">>, <<" ", "+">>,
                  <<"+", "(", "1", ")">>, <<"0", "-">>}

PhoneSuffixes == {EmptyStr, <<" ", "x">>, <<"۱">>}

PhoneInputs ==
    {pre \o digits_run(n) \o suf : pre \in PhonePrefixes, n \in 0..MaxDigits, suf \in PhoneSuffixes}
    \cup {None}

InitPhone ==
    /\ now = Today
    /\ fn_arg \in PhoneInputs
    /\ fn_ret = None
    /\ fn_pc = "ready"
    /\ input_file = Missing
    /\ max_workers = DEFAULT_MAX_WORKERS /\ cpu_count = 1
    /\ pc = "off" /\ ret = FALSE /\ stats = NoStats /\ outfile = NoFile /\ idx = 0
    /\ pool = NoPool /\ cur = NoOutcomes /\ next_to_write = 0 /\ buffer = << >>
    /\ popped = << >> /\ counted = << >>

ApplyPhone ==
    /\ fn_pc = "ready"
    /\ fn_ret' = normalize_phone(fn_arg)
    /\ fn_pc' = "done"
    /\ UNCHANGED <<inputs, fn_arg, pc, ret, stats, outfile, idx, multi_vars, counted>>

\* normalize_phone applied to the phone it returned
ApplyPhoneAgain ==
    /\ fn_pc = "done" /\ fn_ret # None
    /\ fn_ret' = normalize_phone(fn_ret)
    /\ fn_pc' = "again"
    /\ UNCHANGED <<inputs, fn_arg, pc, ret, stats, outfile, idx, multi_vars, counted>>

NextPhone == ApplyPhone \/ ApplyPhoneAgain

SpecPhone == InitPhone /\ [][NextPhone]_vars

-----------------------------------------------------------------------------
(* Claims about the pipeline, checked under Spec *)

\* the run is in parallel mode and has reached the loop of _process_multiprocess
Parallel == max_workers # DEFAULT_MAX_WORKERS /\ pool.workers >= 1

\* the run had a readable source with a header
SourceOk == input_exists /\ fieldnames # None /\ ~read_error

IsSuccess(r) == r.raised = ""

HasReason(failed) == failed[2] # None

\* the normalized rows of the data rows of every source that normalize, in
\* input order
Written ==
    [f \in FileNames |->
        LET done == SelectSeq([k \in 1..Len(Files[f].rows) |-> outcome_of(f, k)], IsSuccess)
        IN  [i \in 1..Len(done) |-> done[i].normalized]]

\* the data rows of every source that fail to normalize, each with its reason,
\* <<row, reason>>, in input order
Failed ==
    [f \in FileNames |->
        SelectSeq([k \in 1..Len(Files[f].rows) |-> <<k, outcome_of(f, k).e>>], HasReason)]

\* the failed rows of the source with their reasons, in input order
failed_rows == Failed[input_file]

\* the number of the first n data rows that fail to normalize
failed_among(n) == Cardinality({i \in 1..Len(failed_rows) : failed_rows[i][1] <= n})

\* the normalized rows of the first n data rows that normalize, in input order
successes(n) == SubSeq(Written[input_file], 1, n - failed_among(n))

\* the reasons of the data rows that fail to normalize, in input order
failures == [i \in 1..Len(failed_rows) |-> failed_rows[i][2]]

ends_with(s, suffix) ==
    Len(s) >= Len(suffix) /\ SubSeq(s, Len(s) - Len(suffix) + 1, Len(s)) = suffix

\* C1: in parallel mode, for every worker count and every completion order, the
\* rows written are exactly the normalized rows of the data rows flushed so far
\* that normalize, in input order; a run that returns True has flushed them all.
C1_OrderedOutput ==
    Parallel =>
        /\ outfile.rows = successes(next_to_write - 2)
        /\ (pc = "done" /\ ret) => next_to_write = Len(rows) + 2

\* the second chunk of the long source has completed before the first and
\* waits, while the rows of the first are written in their order, the failed
\* one left out
C1_Witness ==
    /\ Parallel /\ pool.workers = 2 /\ pool.swapped
    /\ Len(rows) > chunk_size(pool.workers)
    /\ pool.items # << >>
    /\ stats.skipped = 1
    /\ outfile.rows = <<outcome(2).normalized, outcome(3).normalized>>

\* C2: when process() has returned, True or False, in either mode,
\* total = normalized + skipped and len(errors) = skipped.
C2_Counts ==
    pc = "done" =>
        /\ stats.total = stats.normalized + stats.skipped
        /\ Len(stats.errors) = stats.skipped

\* a parallel run aborted by the reader after rows of both outcomes were counted
C2_Witness ==
    /\ pc = "done" /\ ~ret /\ Parallel
    /\ stats.normalized >= 1 /\ stats.skipped >= 1

\* the state part of C3
C3_Inv ==
    Parallel =>
        /\ next_to_write >= 2
        /\ popped = [i \in 1..(next_to_write - 2) |-> i + 1]
        /\ \A k \in DOMAIN buffer : k >= next_to_write

\* C3: in parallel mode, at every point, the sequence numbers popped from the
\* buffer are exactly 2, 3, ..., next_to_write - 1, each once and in this order,
\* every key of the buffer is >= next_to_write, and next_to_write, which starts
\* at 2, never decreases.
C3_ReorderBuffer ==
    /\ []C3_Inv
    /\ [][next_to_write' >= next_to_write]_vars

\* the buffer holds an outcome while earlier ones have been popped, the chunks
\* having completed out of order
C3_Witness ==
    /\ Parallel /\ pc = "flush"
    /\ pool.swapped
    /\ next_to_write > 2 /\ DOMAIN buffer # {}

\* every recorded error ends with the reason of the failure at its place
reasons_recorded(errors, reasons) ==
    /\ Len(errors) = Len(reasons)
    /\ \A i \in 1..Len(errors) : ends_with(errors[i], reasons[i])

\* C4: with a readable source, rows that fail to normalize do not abort the run,
\* whatever the exception normalize_row raises: process() returns True, every
\* row is counted, and the failed rows are the skipped ones, each with its
\* reason recorded, in either mode.
C4_RowFailureNotFatal ==
    (pc = "done" /\ SourceOk) =>
        /\ ret
        /\ stats.total = Len(rows)
        /\ stats.skipped = Len(failures)
        /\ reasons_recorded(stats.errors, failures)
        /\ outfile.rows = successes(Len(rows))
        /\ stats.normalized = Len(outfile.rows)

\* a parallel run of three rows: the first has no id, the date of the second
\* makes datetime() raise OverflowError, and the last one is written
C4_Witness ==
    /\ pc = "done" /\ SourceOk /\ Parallel
    /\ Len(rows) = 3
    /\ outcome(1).e = MsgMissingId
    /\ outcome(2).raised = "OverflowError"
    /\ outcome(3).raised = ""
    /\ Len(stats.errors) = 2 /\ ends_with(stats.errors[2], MsgCInt)
    /\ Len(outfile.rows) = 1

\* C5: when the input file does not exist or has no header row, process()
\* returns False in both modes, no data row is written and the statistics stay
\* total = normalized = skipped = 0 with no errors.
C5_FileLevelAbort ==
    (pc = "done" /\ (~input_exists \/ fieldnames = None)) =>
        /\ ~ret
        /\ outfile.rows = << >>
        /\ stats = NoStats

\* the parallel mode's abort on a source without header, the header written
C5_Witness ==
    /\ pc = "done" /\ input_exists /\ fieldnames = None
    /\ max_workers # DEFAULT_MAX_WORKERS
    /\ outfile.header

\* the data rows read from the source so far
rows_read == IF max_workers = DEFAULT_MAX_WORKERS THEN idx ELSE pool.rdpos

\* C6 as claimed: each data row read from the source has caused exactly one
\* mutation of the statistics when process() has returned.
C6_EveryRowReadCounted ==
    pc = "done" => counted = [i \in 1..rows_read |-> i + 1]

\* the rows of the chunks that the pool has read completely when the source
\* is exhausted
whole_chunks == chunk_size(pool.workers) * (Len(rows) \div chunk_size(pool.workers))

\* the state part of C6 as amended
C6_Inv ==
    /\ Len(counted) <= rows_read
    /\ counted = [i \in 1..Len(counted) |-> i + 1]
    /\ stats.total = Len(counted)
    /\ (pc = "done" /\ ret) => Len(counted) = Len(rows)
    /\ (pc = "done" /\ ~ret /\ Parallel) => Len(counted) = whole_chunks
    /\ (pc = "done" /\ ~ret /\ ~Parallel) => Len(counted) = rows_read

\* the step part of C6 as amended: a step that changes the statistics counts one
\* row, adding one to total and one to exactly one of normalized and skipped
C6_Step ==
    stats' # stats =>
        /\ Len(counted') = Len(counted) + 1
        /\ stats'.total = stats.total + 1
        /\ \/ stats'.normalized = stats.normalized + 1 /\ stats'.skipped = stats.skipped
           \/ stats'.normalized = stats.normalized /\ stats'.skipped = stats.skipped + 1

\* C6, amended: each data row whose outcome reaches the loop of process() causes
\* exactly one mutation of the statistics, in input order and never twice; after
\* a run that returns True every data row has been counted; a parallel run that
\* the reader's exception aborts has counted the rows of the chunks read
\* completely and none of the chunk the reader raised in; a single-threaded
\* run has counted every row read.
C6_OncePerOutcome ==
    /\ []C6_Inv
    /\ [][C6_Step]_vars

\* a parallel run aborted by the reader: the rows of its first chunk are
\* counted, those read into the second are not
C6_Witness ==
    /\ pc = "done" /\ ~ret /\ Parallel
    /\ 0 < Len(counted) /\ Len(counted) < rows_read
    /\ stats.normalized >= 1 /\ stats.skipped >= 1

-----------------------------------------------------------------------------
(* Claims about normalize_row, checked under SpecRow *)

\* the row has no id, or one that is empty once trimmed
id_missing(id) == id = None \/ strip(id) = EmptyStr

\* C7: normalize_row checks the id first, then the phone, then the date, and
\* stops at the first failure: a row without id fails with "Missing id" whatever
\* its phone and date are, and a row with an id and a phone that does not
\* normalize fails with "Invalid phone: <phone>" whatever its date is.
C7_CheckOrder ==
    fn_pc = "done" =>
        /\ id_missing(fn_arg.id) => fn_ret.e = MsgMissingId
        /\ (~id_missing(fn_arg.id) /\ normalize_phone(strip(fn_arg.phone)) = None)
              => fn_ret.e = MsgInvalidPhone \o strip(fn_arg.phone)
        /\ fn_ret.e # None => fn_ret.normalized = NoRow

\* a row whose id, phone and date are all invalid: only the id is reported
C7_Witness ==
    /\ fn_pc = "done"
    /\ fn_arg.id # None /\ strip(fn_arg.id) = EmptyStr /\ fn_arg.id # EmptyStr
    /\ normalize_phone(strip(fn_arg.phone)) = None
    /\ normalize_date(strip(fn_arg.dob), now) = None
    /\ fn_ret.e = MsgMissingId

-----------------------------------------------------------------------------
(* Claims about normalize_date, checked under SpecDate *)

\* format number hit is one of the explicit patterns with a two-digit year
has_two_digit_year(hit) ==
    hit # 0 /\ \E k \in 1..Len(formats_to_try[hit]) : formats_to_try[hit][k] = "%y"

\* the date of the groups of a match, its two-digit year expanded by the
\* pivot 25: 00..25 are 2000..2025, 26..99 are 1926..1999
pivoted_date(g) == datetime(pivot_year(Group(g, "%y")), month_of(g), Group(g, "%d"))

\* the ISO text of a date, refused when the date is after now
iso_unless_future(dt) ==
    IF dt = NoDate THEN None ELSE IF dt_gt(dt, now) THEN None ELSE strftime(dt)

\* what normalize_date returns under the pivot rule for an input s that the
\* explicit pattern number hit parses
pivot_rule_result(s, hit) ==
    iso_unless_future(pivoted_date(re_match(formats_to_try[hit], 1, s, 1, << >>).g))

\* C8: when the input is parsed by an explicit pattern with a two-digit year,
\* the year is expanded with the pivot 25 (the same rule as in the ambiguous
\* resolver) before the future-date test and the formatting.
C8_TwoDigitYearPivot ==
    (fn_pc = "done" /\ IsStr(fn_arg) /\ has_two_digit_year(first_format(strip(fn_arg))))
        => fn_ret = pivot_rule_result(strip(fn_arg), first_format(strip(fn_arg)))

\* the date normalize_date resolves for the trimmed input s, by the first
\* explicit pattern that parses or else by the ambiguous resolver
resolved_date(s, hit) ==
    IF hit # 0 THEN try_format(s, formats_to_try[hit]) ELSE parse_ambiguous_date(s)

\* all characters of s from position p on are digits
RECURSIVE all_digits(_, _)
all_digits(s, p) == p > Len(s) \/ (IsAsciiDigit(s[p]) /\ all_digits(s, p + 1))

\* the date an ISO text YYYY-MM-DD stands for, NoDate when v is no such text
iso_date(v) ==
    IF /\ IsStr(v) /\ Len(v) >= 7
       /\ v[Len(v) - 2] = "-" /\ v[Len(v) - 5] = "-"
       /\ all_digits(SubSeq(v, 1, Len(v) - 6) \o SubSeq(v, Len(v) - 4, Len(v) - 3)
                        \o SubSeq(v, Len(v) - 1, Len(v)), 1)
    THEN datetime(int(SubSeq(v, 1, Len(v) - 6)), int(SubSeq(v, Len(v) - 4, Len(v) - 3)),
                  int(SubSeq(v, Len(v) - 1, Len(v))))
    ELSE NoDate

\* the result v of normalize_date is None or the ISO text of a date not after now
not_future(v) == v = None \/ (iso_date(v) # NoDate /\ ~dt_gt(iso_date(v), now))

\* a date resolved after now gives None
future_refused(dt, v) == (dt # NoDate /\ dt_gt(dt, now)) => v = None

\* C9: a date that resolves, by an explicit pattern or by the ambiguous
\* resolver, to a calendar date strictly after now makes normalize_date return
\* None; whatever normalize_date returns is None or a date not after now.
C9_NoFutureDates ==
    fn_pc = "done" =>
        /\ not_future(fn_ret)
        /\ (IsStr(fn_arg) /\ strip(fn_arg) # EmptyStr) =>
              future_refused(resolved_date(strip(fn_arg), first_format(strip(fn_arg))), fn_ret)

\* an input that only the ambiguous resolver reads, as a valid date after now
C9_Witness ==
    /\ fn_pc = "done" /\ IsStr(fn_arg)
    /\ first_format(strip(fn_arg)) = 0
    /\ parse_ambiguous_date(strip(fn_arg)) # NoDate
    /\ dt_gt(parse_ambiguous_date(strip(fn_arg)), now)
    /\ fn_ret = None

\* the year and the two other numbers, in their order of appearance, of three
\* parts, by the position rule of parse_ambiguous_date
year_and_others(part1, part2, part3) ==
    IF at_least(part3, 1000) \/ at_least(part3, 32) THEN <<part3, part1, part2>>
    ELSE IF at_least(part1, 1000) \/ at_least(part1, 32) THEN <<part1, part2, part3>>
    ELSE IF at_least(part2, 1000) THEN <<part2, part1, part3>>
    ELSE <<part3, part1, part2>>

\* the day-first and the month-first reading of year and two other numbers
day_first(yo) == candidate(pivot_year(yo[1]), yo[2], yo[3])

month_first(yo) == candidate(pivot_year(yo[1]), yo[3], yo[2])

\* the result for an input whose two readings are both valid dates
day_first_wins(yo, v) ==
    (day_first(yo) # NoDate /\ month_first(yo) # NoDate) => v = iso_unless_future(day_first(yo))

day_first_of_numbers(numbers, v) ==
    Len(numbers) >= 3 =>
        day_first_wins(year_and_others(int(numbers[1]), int(numbers[2]), int(numbers[3])), v)

\* C10: in the ambiguous resolver, when the two numbers that are not the year
\* can be read both day-first and month-first as valid dates, the day-first
\* reading is the one taken.
C10_DayFirstPreferred ==
    (fn_pc = "done" /\ IsStr(fn_arg) /\ strip(fn_arg) # EmptyStr
        /\ first_format(strip(fn_arg)) = 0)
        => day_first_of_numbers(re_findall_digits(strip(fn_arg), 1), fn_ret)

-----------------------------------------------------------------------------
(* Claims about normalize_phone, checked under SpecPhone *)

\* v is '+' followed solely by 8 to 15 decimal digits
canonical_phone(v) ==
    /\ IsStr(v) /\ 9 <= Len(v) /\ Len(v) <= 16
    /\ v[1] = "+"
    /\ \A i \in 2..Len(v) : IsAsciiDigit(v[i])

\* C11: every value normalize_phone returns other than failure is '+' followed
\* solely by 8 to 15 decimal digits (also when it is applied to its own result).
C11_CanonicalPhone ==
    (fn_pc \in {"done", "again"} /\ fn_ret # None) => canonical_phone(fn_ret)

\* a local number with noise, turned into the canonical form of 12 digits
C11_Witness ==
    /\ fn_pc = "done" /\ fn_ret # None
    /\ ~canonical_phone(fn_arg)
    /\ fn_arg[1] = "0" /\ \E i \in 1..Len(fn_arg) : fn_arg[i] = "x"
    /\ Len(fn_ret) = 13

\* C12: for every string p that is '+' followed by 8 to 15 digits,
\* normalize_phone(p) = p and normalize_phone(normalize_phone(p)) = p.
C12_Idempotent ==
    (fn_pc \in {"done", "again"} /\ canonical_phone(fn_arg)) => fn_ret = fn_arg

\* a canonical phone of 10 digits starting with 0, normalized twice
C12_Witness ==
    /\ fn_pc = "again" /\ canonical_phone(fn_arg)
    /\ Len(fn_arg) = 11 /\ fn_arg[2] = "0"
    /\ fn_ret = fn_arg

\* the digits of a string, in order
RECURSIVE digits_of(_)
digits_of(s) ==
    IF s = << >> THEN << >>
    ELSE IF IsAsciiDigit(Head(s)) THEN <<Head(s)>> \o digits_of(Tail(s)) ELSE digits_of(Tail(s))

\* what the steps 1-7 of the Phone Normalizer return from the raw value and
\* its digits d, with home country code 971
phone_by_steps(raw, d) ==
    IF ~IsStr(raw) \/ raw = EmptyStr THEN None
    ELSE IF raw[1] # "+" /\ Len(d) = 10 /\ d[1] = "0"
        THEN <<"+", "9", "7", "1">> \o SubSeq(d, 2, 10)
    ELSE IF Len(d) \in 8..15 THEN <<"+">> \o d
    ELSE None

\* C13: for every input normalize_phone returns what the steps 1-7 return with
\* home country code 971: a string not starting with '+' whose digits start with
\* 0 and number exactly 10 gives '+971' and the 9 digits after the 0; every
\* other non-empty string gives '+' and its digits when they number 8 to 15,
\* and failure otherwise.
C13_PhoneSteps ==
    fn_pc = "done" => fn_ret = phone_by_steps(fn_arg, IF IsStr(fn_arg) THEN digits_of(fn_arg) ELSE << >>)

\* a number of 10 digits starting with 0 and with '+', which the local rule
\* leaves alone
C13_Witness ==
    /\ fn_pc = "done" /\ IsStr(fn_arg) /\ fn_arg # EmptyStr
    /\ fn_arg[1] = "+" /\ Len(digits_of(fn_arg)) = 10 /\ digits_of(fn_arg)[1] = "0"
    /\ fn_ret = <<"+">> \o digits_of(fn_arg)

-----------------------------------------------------------------------------
(* Further claims about the pipeline, checked under Spec *)

\* the places of a row whose field name is id, case and blanks aside
id_places(row) == {i \in 1..Len(row) : strip(lower(row[i][1])) = KeyId}

\* the value of the row's id, None when the row has none
raw_id(row) ==
    IF id_places(row) = {} THEN None
    ELSE row[CHOOSE i \in id_places(row) : \A j \in id_places(row) : i >= j][2]

\* the texts that stand for the id v in a failure description: the value, as
\* read or trimmed, and 'unknown' for a row without id
id_parts(v) ==
    IF v = None THEN {Unknown}
    ELSE {v, strip(v)} \cup (IF strip(v) = EmptyStr THEN {Unknown} ELSE {})

\* text is 'Row <sequence> (ID: <id or 'unknown'>): <reason>' for the failed row k
describes(text, k, r) ==
    /\ r.e # None
    /\ \E id \in id_parts(raw_id(row_at(k))) : text = error_text(seq_of(k), id, r.e)

\* C14: in both modes every string appended to errors is
\* 'Row <sequence> (ID: <id or 'unknown'>): <reason>' for a failed row: its
\* sequence number, its id value found under the field name id whatever the
\* case, or 'unknown' when the row has no id, and its failure reason.
C14_ErrorForm ==
    \A i \in 1..Len(stats.errors) :
        \E k \in 1..Len(rows) : describes(stats.errors[i], k, outcome(k))

-----------------------------------------------------------------------------
(* Further claims about normalize_date, checked under SpecDate *)

\* a year below 100 expanded: <= 25 -> 2000 + year, otherwise 1900 + year
expanded_year(y) == IF y >= 100 THEN y ELSE IF y <= 25 THEN 2000 + y ELSE 1900 + y

\* a is a valid calendar date not after now
usable(dt) == dt # NoDate /\ ~dt_gt(dt, now)

\* the result v for the year and the two other numbers yo: a date of the
\* expanded year, and None only when a reading is after now or none is a date
year_taken(yo, v) ==
    /\ v # None => iso_date(v).year = expanded_year(yo[1])
    /\ v = None => \/ ~usable(candidate(expanded_year(yo[1]), yo[2], yo[3]))
                   \/ ~usable(candidate(expanded_year(yo[1]), yo[3], yo[2]))

\* the result v for the numeric runs of an input of the resolver
year_of_numbers(numbers, v) ==
    IF Len(numbers) < 3 THEN v = None
    ELSE year_taken(year_and_others(int(numbers[1]), int(numbers[2]), int(numbers[3])), v)

\* C15: the Ambiguous Date Resolver takes as the year, among the first three
\* numeric runs, n3 if n3 >= 1000 or n3 > 31, else n1 if n1 >= 1000 or n1 > 31,
\* else n2 if n2 >= 1000, else n3; it fails on fewer than three runs, and a
\* year below 100 is expanded by the pivot 25.
C15_YearPrecedence ==
    (fn_pc = "done" /\ IsStr(fn_arg) /\ strip(fn_arg) # EmptyStr
        /\ first_format(strip(fn_arg)) = 0)
        => year_of_numbers(re_findall_digits(strip(fn_arg), 1), fn_ret)

\* the default case with a two-digit year above the pivot: 26 read as 1926
C15_Witness ==
    /\ fn_pc = "done" /\ IsStr(fn_arg)
    /\ first_format(strip(fn_arg)) = 0
    /\ Len(re_findall_digits(strip(fn_arg), 1)) = 3
    /\ int(re_findall_digits(strip(fn_arg), 1)[3]) = 26
    /\ fn_ret # None /\ iso_date(fn_ret).year = 1926

\* the state part of C16
C16_Inv ==
    pc = "drain" => (DOMAIN buffer = {} /\ next_to_write = Len(rows) + 2)

\* the step part of C16: the step taken after the loop, the safety drain,
\* writes no row and removes no entry
C16_Step ==
    pc = "drain" =>
        /\ outfile' = outfile /\ buffer' = buffer
        /\ next_to_write' = next_to_write /\ popped' = popped

\* C16: in parallel mode, when the loop over the outcomes has ended, the buffer
\* is empty and next_to_write is 2 plus the number of data rows, so that the
\* safety drain writes no row and removes no entry.
C16_DrainIsNoOp ==
    /\ []C16_Inv
    /\ [][C16_Step]_vars

\* the loop has ended with two workers and three rows, two of them written
C16_Witness ==
    /\ pc = "drain" /\ Parallel /\ pool.workers = 2
    /\ Len(rows) = 3 /\ next_to_write = 5
    /\ Len(outfile.rows) = 2 /\ stats.skipped = 1

\* the rows of a task
task_rows(task) == task.chunk[2] - task.chunk[1] + 1

\* the rows read from the source whose task is on the task pipe or beyond
dispatched ==
    (IF read_error /\ pool.gen # "run" THEN whole_chunks ELSE pool.rdpos) - task_rows(pool.task)

\* the rows dispatched whose outcome the loop has not received
in_flight == dispatched - Len(counted)

\* C17 (under SpecFeed): in parallel mode the rows read from the source and
\* dispatched whose outcome the writer has not received are bounded by the chunk
\* size and the worker count, whatever the length of the input: of an input
\* longer than a chunk for each worker and one more being read, they are never
\* all the rows.
C17_Backpressure ==
    (Parallel /\ ~read_error /\ Len(rows) > chunk_size(pool.workers) * (pool.workers + 1))
        => in_flight < Len(rows)

\* every task has been taken and completed, and its result handed to the
\* iterator
all_completed ==
    /\ pool.gen = "done" /\ pool.task = NoTask
    /\ pool.inqueue = << >> /\ pool.outqueue = << >>
    /\ \A w \in DOMAIN pool.busy : pool.busy[w] = NoTask

\* with one worker, hence one chunk size, every row of the long source, and
\* of the longer one, is in flight, the outcomes of all of them waiting in the
\* iterator for a loop that has received none
C17_LongInFlight ==
    /\ Parallel /\ input_file = LongFile /\ all_completed
    /\ Len(counted) = 0 /\ in_flight = LongRows

C17_LongerInFlight ==
    /\ Parallel /\ input_file = LongerFile /\ all_completed
    /\ Len(counted) = 0 /\ in_flight = LongerRows

\* the statistics and the rows written of single-threaded mode at its end:
\* every data row counted, the rows that normalize written and the others
\* skipped with single-threaded mode's description, in input order
single_run ==
    [stats |-> [total |-> Len(rows),
                normalized |-> Len(Written[input_file]),
                skipped |-> Len(failed_rows),
                errors |-> [i \in 1..Len(failed_rows) |->
                               single_error(seq_of(failed_rows[i][1]), row_at(failed_rows[i][1]),
                                            failed_rows[i][2])]],
     written |-> Written[input_file]]

\* a run ended as the single-threaded one
same_as(run) == outfile.rows = run.written /\ stats = run.stats

\* C18: for every readable input, a run in single-threaded mode and a run in
\* parallel mode with any worker count end with the same rows written in the
\* same order and the same statistics, the error strings being identical.
C18_ModesAgree ==
    (pc = "done" /\ SourceOk) => same_as(single_run)

starts_with(s, prefix) == Len(s) >= Len(prefix) /\ SubSeq(s, 1, Len(prefix)) = prefix

\* text is the failure description of the failed row f, <<row, reason>>
belongs_to(text, f) ==
    /\ starts_with(text, <<"R", "o", "w", " ">> \o str(seq_of(f[1])) \o <<" ", "(", "I", "D", ":", " ">>)
    /\ ends_with(text, <<")", ":", " ">> \o f[2])

\* the errors are those of the first failed rows, one each, in input order
in_input_order(errors, failed) ==
    /\ Len(errors) <= Len(failed)
    /\ \A i \in 1..Len(errors) : belongs_to(errors[i], failed[i])

\* C19: in both modes, at every point, the i-th error is the description of
\* the i-th failed row of the input: the errors are in increasing order of
\* sequence number, whatever the order in which the workers complete.
C19_ErrorsInInputOrder ==
    stats.errors # << >> => in_input_order(stats.errors, failed_rows)

\* the second chunk of the long source, which holds a failed row, has
\* completed before the first and waits, while the failure of the first row is
\* the only one recorded
C19_Witness ==
    /\ Parallel /\ pool.swapped /\ pool.workers = 2
    /\ Len(rows) > chunk_size(pool.workers)
    /\ pool.items # << >>
    /\ \E i \in 1..Len(failed_rows) : failed_rows[i][1] > chunk_size(pool.workers)
    /\ Len(counted) >= 2
    /\ Len(stats.errors) = 1 /\ belongs_to(stats.errors[1], failed_rows[1])

=============================================================================
